---- MODULE Spec2Model ----
(***************************************************************************)
(* Culinary Companion: the aggregate (recipes, inventory, tags,            *)
(* categories) held by App, the inventory rules of InventoryManager, the   *)
(* settings cascade of SettingsManager, the persistence adapter of         *)
(* utils/storage and the shopping-list aggregator of ShoppingList.         *)
(*                                                                         *)
(* A JavaScript object is a function from its own property names to their  *)
(* values: an optional property that was never set (category,              *)
(* untrackedAmount, stockStatus, optional) is a key missing from DOMAIN.   *)
(* Amounts are integers.  Names are ordinary words: a name that collides   *)
(* with a member of Object.prototype ("constructor", "__proto__") is       *)
(* outside the model.                                                      *)
(***************************************************************************)
EXTENDS Integers, Sequences, FiniteSets, TLC

VARIABLES
  state,            \* App.tsx: useState<AppState>, the aggregate
  storage,          \* localStorage[STORAGE_KEY], the persisted document
  selectedRecipes,  \* ShoppingList.tsx: the meal plan
  replenishItems,   \* ShoppingList.tsx: ids of low-stock items to replenish
  checkedItems,     \* ShoppingList.tsx: names of the list lines ticked off
  activeTab,        \* App.tsx: the tab whose component is mounted
  reads,            \* the contents of the files whose FileReader has not fired yet
  alert,            \* the text of the last alert() shown, "" when none was
  nextId,           \* number of uuidv4() identities issued so far
  lastUpdate        \* the handler that last updated the aggregate, and the branch it took

vars ==
  <<state, storage, selectedRecipes, replenishItems, checkedItems, activeTab, reads, alert, nextId, lastUpdate>>

(***************************************************************************)
(* Bounds of the model.                                                    *)
(***************************************************************************)
MaxAmount == 2      \* amounts typed into a form or found in a document
MaxCount == 2       \* cap on a plan entry's repeat count
MaxIds == 2         \* cap on the identities uuidv4() issues in one run
MaxReads == 2       \* cap on the file reads in flight at once
MaxFinite == 1000   \* the largest finite number (Number.MAX_VALUE)

(***************************************************************************)
(* JavaScript helpers.                                                     *)
(***************************************************************************)
Has(o, k) == k \in DOMAIN o

\* o.k || d : the property when it is set and truthy, else the default
OrElse(o, k, d) == IF Has(o, k) /\ o[k] # "" THEN o[k] ELSE d

\* truthiness of an optional boolean property
Truthy(o, k) == Has(o, k) /\ o[k]

\* { ...o, k: v }
Put(o, k, v) == [x \in DOMAIN o \cup {k} |-> IF x = k THEN v ELSE o[x]]

\* { ...a, ...b }
Merge(a, b) == [x \in DOMAIN a \cup DOMAIN b |-> IF x \in DOMAIN b THEN b[x] ELSE a[x]]

Max(a, b) == IF a >= b THEN a ELSE b

Names == {"milk", "Milk", "egg"}

\* String.prototype.toLowerCase on the names of the model
toLowerCase(n) ==
  CASE n = "Milk" -> "milk"
    [] n = "Pizza Dough" -> "pizza dough"
    [] n = "Tomato Sauce" -> "tomato sauce"
    [] n = "Mozzarella" -> "mozzarella"
    [] n = "Fresh Basil" -> "fresh basil"
    [] n = "Sourdough Bread" -> "sourdough bread"
    [] n = "Avocado" -> "avocado"
    [] n = "Red Pepper Flakes" -> "red pepper flakes"
    [] OTHER -> n

\* String.prototype.trim on the texts typed into the settings inputs
Trim(t) == IF t = " Spices " THEN "Spices" ELSE t

\* Array.prototype.findIndex: the first index whose element satisfies P, 0 when none
FindIndex(s, P(_)) ==
  IF \E i \in 1..Len(s) : P(s[i])
  THEN CHOOSE i \in 1..Len(s) : P(s[i]) /\ \A j \in 1..(i - 1) : ~P(s[j])
  ELSE 0

(***************************************************************************)
(* utils/storage.ts and the seed data of App.tsx.                          *)
(***************************************************************************)
DEFAULT_TAGS ==
  <<"Breakfast", "Lunch", "Dinner", "Snack", "Dessert", "Vegetarian", "Vegan", "Quick">>

DEFAULT_CATEGORIES ==
  <<"Produce", "Dairy", "Meat", "Bakery", "Frozen", "Pantry", "Beverages", "Household", "Other">>

\* storage.ts:14-19 and 31-36, the aggregate returned without a usable document
DefaultAggregate ==
  [recipes |-> <<>>, inventory |-> <<>>,
   customTags |-> DEFAULT_TAGS, categories |-> DEFAULT_CATEGORIES]

\* App.tsx:37-73 (descriptions and instructions left out)
INITIAL_DATA ==
  [recipes |->
     << [id |-> "1", name |-> "Classic Margherita Pizza",
         ingredients |->
           << [id |-> "i1", name |-> "Pizza Dough", amount |-> 1, unit |-> "pcs", category |-> "Bakery"],
              [id |-> "i2", name |-> "Tomato Sauce", amount |-> 100, unit |-> "ml", category |-> "Pantry"],
              [id |-> "i3", name |-> "Mozzarella", amount |-> 150, unit |-> "g", category |-> "Dairy"],
              [id |-> "i4", name |-> "Fresh Basil", amount |-> 5, unit |-> "leaves", category |-> "Produce"] >>,
         tags |-> <<"Dinner", "Vegetarian">>, prepTime |-> 20],
        [id |-> "2", name |-> "Avocado Toast",
         ingredients |->
           << [id |-> "i5", name |-> "Sourdough Bread", amount |-> 2, unit |-> "slices", category |-> "Bakery"],
              [id |-> "i6", name |-> "Avocado", amount |-> 1, unit |-> "pcs", category |-> "Produce"],
              [id |-> "i7", name |-> "Red Pepper Flakes", amount |-> 1, unit |-> "tsp", category |-> "Pantry"] >>,
         tags |-> <<"Breakfast", "Quick", "Vegan">>, prepTime |-> 5] >>,
   inventory |->
     << [id |-> "inv1", name |-> "Sourdough Bread", amount |-> 4, unit |-> "slices", category |-> "Bakery"],
        [id |-> "inv2", name |-> "Avocado", amount |-> 2, unit |-> "pcs", category |-> "Produce"] >>,
   customTags |-> DEFAULT_TAGS,
   categories |-> DEFAULT_CATEGORIES]

\* what localStorage.getItem and a FileReader can deliver: nothing, a text that
\* is not JSON, or the JSON text of an object
NoItem == [kind |-> "none"]
Garbage == [kind |-> "garbage"]
NullText == [kind |-> "null"]      \* the text null: it parses, and parsed.recipes throws
Unreadable == [kind |-> "unreadable"]
Json(v) == [kind |-> "json", value |-> v]

\* In a JSON text a property of the document is an array or the literal null,
\* and a number is a numeral or, again, null.  The numbers of the model are the
\* integers of -MaxFinite..MaxFinite and Infinity, the double every larger
\* sum or numeral becomes; Null is null in a number position.
Infinity == MaxFinite + 1
Null == -(MaxFinite + 1)
Arr(s) == [arr |-> s]
JsNull == [lit |-> "null"]

\* JSON.stringify of a number: a non-finite number and null are written null
NumText(n) == IF n > MaxFinite \/ n < -MaxFinite THEN JsNull ELSE [lit |-> "num", v |-> n]

\* JSON.parse of a numeral or of null
NumValue(t) ==
  IF t.lit = "null" THEN Null ELSE IF t.v > MaxFinite THEN Infinity ELSE t.v

IngText(i) == [k \in DOMAIN i |-> IF k = "amount" THEN NumText(i[k]) ELSE i[k]]

IngValue(t) == [k \in DOMAIN t |-> IF k = "amount" THEN NumValue(t[k]) ELSE t[k]]

RecipeText(r) ==
  [k \in DOMAIN r |->
     IF k = "ingredients" THEN [i \in 1..Len(r[k]) |-> IngText(r[k][i])]
     ELSE IF k = "prepTime" THEN NumText(r[k])
     ELSE r[k]]

RecipeValue(t) ==
  [k \in DOMAIN t |->
     IF k = "ingredients" THEN [i \in 1..Len(t[k]) |-> IngValue(t[k][i])]
     ELSE IF k = "prepTime" THEN NumValue(t[k])
     ELSE t[k]]

\* JSON.stringify(state): the text of an object with the own properties of the
\* aggregate, each of them an array
Stringify(s) ==
  Json([k \in DOMAIN s |->
          Arr(IF k = "recipes" THEN [r \in 1..Len(s[k]) |-> RecipeText(s[k][r])]
              ELSE IF k = "inventory" THEN [i \in 1..Len(s[k]) |-> IngText(s[k][i])]
              ELSE s[k])])

\* JSON.parse of the text of an object: each property is an array or null
JsonParse(data) ==
  [k \in DOMAIN data.value |->
     IF ~Has(data.value[k], "arr") THEN JsNull
     ELSE Arr(IF k = "recipes"
              THEN [r \in 1..Len(data.value[k].arr) |-> RecipeValue(data.value[k].arr[r])]
              ELSE IF k = "inventory"
              THEN [i \in 1..Len(data.value[k].arr) |-> IngValue(data.value[k].arr[i])]
              ELSE data.value[k].arr)]

\* a parsed document whose properties are all arrays, taken as an AppState
AsAggregate(parsed) == [k \in DOMAIN parsed |-> parsed[k].arr]

\* parsed.k || d : an array, even an empty one, is truthy; null and a missing
\* property are not
FieldOr(parsed, k, d) == IF Has(parsed, k) /\ Has(parsed[k], "arr") THEN parsed[k].arr ELSE d

\* loadFromLocalStorage falling back to the whole default aggregate as soon
\* as one property of the document is missing or null
loadFromLocalStorage_AllOrNothing(data) ==
  IF data.kind # "json" THEN DefaultAggregate
  ELSE LET parsed == JsonParse(data)
       IN IF \A k \in {"recipes", "inventory", "customTags", "categories"} :
                Has(parsed, k) /\ Has(parsed[k], "arr")
          THEN AsAggregate(parsed)
          ELSE DefaultAggregate

\* storage.ts:11-38
loadFromLocalStorage(data) ==
  IF data.kind # "json" THEN DefaultAggregate
  ELSE LET parsed == JsonParse(data)
       IN [recipes |-> FieldOr(parsed, "recipes", <<>>),
           inventory |-> FieldOr(parsed, "inventory", <<>>),
           customTags |-> FieldOr(parsed, "customTags", DEFAULT_TAGS),
           categories |-> FieldOr(parsed, "categories", DEFAULT_CATEGORIES)]

\* storage.ts:40-50, the text of the downloaded file
exportSession(s) == Stringify(s)

\* App.tsx:78-81, the initial value of the aggregate
InitialState(data) ==
  LET saved == loadFromLocalStorage(data)
  IN IF Len(saved.recipes) > 0 THEN saved ELSE INITIAL_DATA

\* Commit without the save effect of App.tsx:90-92
Commit_NoSave(next, update) ==
  /\ state' = next
  /\ storage' = storage
  /\ lastUpdate' = update

\* App.tsx:90-92 after a setState: the aggregate is replaced, the effect
\* persists it, and the handler is remembered
Commit(next, update) ==
  /\ state' = next
  /\ storage' = Stringify(next)
  /\ lastUpdate' = update

\* App.tsx:115-117
updateInventory(inventory, update) ==
  Commit([state EXCEPT !.inventory = inventory], update)

(***************************************************************************)
(* InventoryManager.tsx.                                                   *)
(***************************************************************************)
SameName(a, b) == toLowerCase(a) = toLowerCase(b)

\* the branch addItem takes (InventoryManager.tsx:28-47)
AddItemPath(inventory, newItem) ==
  LET idx == FindIndex(inventory, LAMBDA i : SameName(i.name, newItem.name))
  IN IF idx = 0 THEN "append"
     ELSE IF newItem.untrackedAmount THEN "merge-untracked"
     ELSE IF Truthy(inventory[idx], "untrackedAmount") THEN "merge-replace"
     ELSE "merge-add"

\* AddItemOf with line 41 assigning the incoming amount instead of adding it
AddItemOf_Replaces(inventory, newItem, id) ==
  LET idx == FindIndex(inventory, LAMBDA i : SameName(i.name, newItem.name))
      existing == inventory[idx]
  IN IF idx # 0
     THEN [inventory EXCEPT ![idx] =
             IF newItem.untrackedAmount
             THEN Put(Put(existing, "untrackedAmount", TRUE), "stockStatus", newItem.stockStatus)
             ELSE Put(Put(existing, "untrackedAmount", FALSE), "amount", newItem.amount)]
     ELSE Append(inventory, Put(newItem, "id", id))

\* AddItemOf with line 39 adding the incoming amount to the stale amount of
\* the untracked item
AddItemOf_SumsStale(inventory, newItem, id) ==
  LET idx == FindIndex(inventory, LAMBDA i : SameName(i.name, newItem.name))
      existing == inventory[idx]
  IN IF idx # 0
     THEN [inventory EXCEPT ![idx] =
             IF newItem.untrackedAmount
             THEN Put(Put(existing, "untrackedAmount", TRUE), "stockStatus", newItem.stockStatus)
             ELSE Put(Put(existing, "untrackedAmount", FALSE), "amount",
                      existing.amount + newItem.amount)]
     ELSE Append(inventory, Put(newItem, "id", id))

\* InventoryManager.tsx:28-47, the inventory addItem hands to onUpdate
AddItemOf(inventory, newItem, id) ==
  LET idx == FindIndex(inventory, LAMBDA i : SameName(i.name, newItem.name))
      existing == inventory[idx]
  IN IF idx # 0
     THEN [inventory EXCEPT ![idx] =
             IF newItem.untrackedAmount
             THEN Put(Put(existing, "untrackedAmount", TRUE), "stockStatus", newItem.stockStatus)
             ELSE IF Truthy(existing, "untrackedAmount")
                  THEN Put(Put(existing, "untrackedAmount", FALSE), "amount", newItem.amount)
                  ELSE Put(existing, "amount", existing.amount + newItem.amount)]
     ELSE Append(inventory, Put(newItem, "id", id))

\* the cap of the model on the amounts a handler writes: an amount the
\* handler leaves as it is (4 slices of bread in the seed data) is no concern
InBounds(inventory) ==
  \A i \in 1..Len(inventory) :
    IF inventory[i].amount <= MaxAmount /\ inventory[i].amount >= -1
    THEN TRUE
    ELSE i <= Len(state.inventory) /\ inventory[i].amount = state.inventory[i].amount

Uuid(n) == IF n = 0 THEN "u1" ELSE IF n = 1 THEN "u2" ELSE IF n = 2 THEN "u3" ELSE "u4"

\* InventoryManager.tsx:24-56
addItem(newItem) ==
  /\ activeTab = "inventory"
  /\ newItem.name # ""
  /\ LET path == AddItemPath(state.inventory, newItem)
         next == AddItemOf(state.inventory, newItem, Uuid(nextId))
     IN /\ path = "append" => nextId < MaxIds
        /\ InBounds(next)
        /\ updateInventory(next, [op |-> "addItem", path |-> path])
        /\ nextId' = IF path = "append" THEN nextId + 1 ELSE nextId
  /\ UNCHANGED <<selectedRecipes, replenishItems, checkedItems, activeTab, reads, alert>>

\* UpdateAmountOf without the Math.max(0, ...) of line 65
UpdateAmountOf_NoClamp(inventory, id, delta) ==
  [k \in 1..Len(inventory) |->
     IF inventory[k].id = id
     THEN Put(inventory[k], "amount", inventory[k].amount + delta)
     ELSE inventory[k]]

\* InventoryManager.tsx:62-69
UpdateAmountOf(inventory, id, delta) ==
  [k \in 1..Len(inventory) |->
     IF inventory[k].id = id
     THEN Put(inventory[k], "amount", Max(0, inventory[k].amount + delta))
     ELSE inventory[k]]

\* the - and + buttons of a tracked item (InventoryManager.tsx:286-298)
updateAmount(id, delta) ==
  /\ activeTab = "inventory"
  /\ \E k \in 1..Len(state.inventory) :
        state.inventory[k].id = id /\ ~Truthy(state.inventory[k], "untrackedAmount")
  /\ InBounds(UpdateAmountOf(state.inventory, id, delta))
  /\ updateInventory(UpdateAmountOf(state.inventory, id, delta),
                     [op |-> "updateAmount", delta |-> delta])
  /\ UNCHANGED <<selectedRecipes, replenishItems, checkedItems, activeTab, reads, alert, nextId>>

\* InventoryManager.tsx:71-78
ToggleUntrackedOf(inventory, id) ==
  [k \in 1..Len(inventory) |->
     IF inventory[k].id = id
     THEN Put(Put(inventory[k], "untrackedAmount", ~Truthy(inventory[k], "untrackedAmount")),
              "stockStatus", OrElse(inventory[k], "stockStatus", "in-stock"))
     ELSE inventory[k]]

toggleUntracked(id) ==
  /\ activeTab = "inventory"
  /\ \E k \in 1..Len(state.inventory) : state.inventory[k].id = id
  /\ updateInventory(ToggleUntrackedOf(state.inventory, id), [op |-> "toggleUntracked"])
  /\ UNCHANGED <<selectedRecipes, replenishItems, checkedItems, activeTab, reads, alert, nextId>>

\* InventoryManager.tsx:80-87
SetStockStatusOf(inventory, id, status) ==
  [k \in 1..Len(inventory) |->
     IF inventory[k].id = id THEN Put(inventory[k], "stockStatus", status) ELSE inventory[k]]

\* the status buttons of an untracked item (InventoryManager.tsx:267-284)
setStockStatus(id, status) ==
  /\ activeTab = "inventory"
  /\ \E k \in 1..Len(state.inventory) :
        state.inventory[k].id = id /\ Truthy(state.inventory[k], "untrackedAmount")
  /\ updateInventory(SetStockStatusOf(state.inventory, id, status),
                     [op |-> "setStockStatus"])
  /\ UNCHANGED <<selectedRecipes, replenishItems, checkedItems, activeTab, reads, alert, nextId>>

\* InventoryManager.tsx:89-96
UpdateCategoryOf(inventory, id, category) ==
  [k \in 1..Len(inventory) |->
     IF inventory[k].id = id THEN Put(inventory[k], "category", category) ELSE inventory[k]]

\* the category dropdown of an item card (InventoryManager.tsx:233-241): the
\* card is rendered in the group of the item's category (line 219) and the
\* options are the categories of the vocabulary
updateCategory(id, category) ==
  /\ activeTab = "inventory"
  /\ \E k \in 1..Len(state.inventory), c \in 1..Len(state.categories) :
        /\ state.inventory[k].id = id
        /\ OrElse(state.inventory[k], "category", "Other") = state.categories[c]
  /\ \E c \in 1..Len(state.categories) : state.categories[c] = category
  /\ updateInventory(UpdateCategoryOf(state.inventory, id, category),
                     [op |-> "updateCategory"])
  /\ UNCHANGED <<selectedRecipes, replenishItems, checkedItems, activeTab, reads, alert, nextId>>

(***************************************************************************)
(* ShoppingList.tsx: the shoppingList memo.                                *)
(***************************************************************************)

\* NeededAdd overwriting unit and category at every occurrence
NeededAdd_LastUnit(needed, ing, count) ==
  LET key == toLowerCase(ing.name)
      idx == FindIndex(needed, LAMBDA e : e.name = key)
      base == IF idx = 0
              THEN Append(needed, [name |-> key, amount |-> 0, unit |-> ing.unit,
                                   category |-> OrElse(ing, "category", "Other")])
              ELSE needed
      at == IF idx = 0 THEN Len(base) ELSE idx
  IN [base EXCEPT ![at] = [name |-> key, amount |-> @.amount + ing.amount * count,
                           unit |-> ing.unit,
                           category |-> OrElse(ing, "category", "Other")]]

\* ShoppingList.tsx:61-67, the body of recipe.ingredients.forEach: `needed` is
\* the sequence of its entries in insertion order (the order of Object.entries)
NeededAdd(needed, ing, count) ==
  LET key == toLowerCase(ing.name)
      idx == FindIndex(needed, LAMBDA e : e.name = key)
      base == IF idx = 0
              THEN Append(needed, [name |-> key, amount |-> 0, unit |-> ing.unit,
                                   category |-> OrElse(ing, "category", "Other")])
              ELSE needed
      at == IF idx = 0 THEN Len(base) ELSE idx
  IN [base EXCEPT ![at].amount = @ + ing.amount * count]

RECURSIVE NeededOfIngredients(_, _, _)
NeededOfIngredients(needed, ings, count) ==
  IF ings = <<>> THEN needed
  ELSE NeededOfIngredients(NeededAdd(needed, Head(ings), count), Tail(ings), count)

\* ShoppingList.tsx:57-68, selectedRecipes.forEach
RECURSIVE NeededOfPlan(_, _, _)
NeededOfPlan(needed, plan, recipes) ==
  IF plan = <<>> THEN needed
  ELSE LET r == FindIndex(recipes, LAMBDA x : x.id = Head(plan).recipeId)
       IN IF r = 0
          THEN NeededOfPlan(needed, Tail(plan), recipes)
          ELSE NeededOfPlan(NeededOfIngredients(needed, recipes[r].ingredients, Head(plan).count),
                            Tail(plan), recipes)

Needed(plan, recipes) == NeededOfPlan(<<>>, plan, recipes)

\* NetEntry with line 81 testing finalAmount >= 0
NetEntry_KeepsZero(finalItems, e, inventory) ==
  LET s == FindIndex(inventory, LAMBDA i : toLowerCase(i.name) = e.name)
      skip == s # 0 /\ Truthy(inventory[s], "untrackedAmount")
                     /\ ~(Has(inventory[s], "stockStatus")
                          /\ inventory[s].stockStatus = "out-of-stock")
      stockAmount == IF s # 0 THEN inventory[s].amount ELSE 0
      finalAmount == Max(0, e.amount - stockAmount)
  IN IF skip THEN finalItems
     ELSE Append(finalItems, [name |-> e.name, amount |-> finalAmount,
                              unit |-> e.unit, category |-> e.category])

\* NetEntry with line 78 never reading the stock
NetEntry_IgnoresStock(finalItems, e, inventory) ==
  LET s == FindIndex(inventory, LAMBDA i : toLowerCase(i.name) = e.name)
      skip == s # 0 /\ Truthy(inventory[s], "untrackedAmount")
                     /\ ~(Has(inventory[s], "stockStatus")
                          /\ inventory[s].stockStatus = "out-of-stock")
      finalAmount == Max(0, e.amount)
  IN IF skip THEN finalItems
     ELSE IF finalAmount > 0
          THEN Append(finalItems, [name |-> e.name, amount |-> finalAmount,
                                   unit |-> e.unit, category |-> e.category])
          ELSE finalItems

\* NetEntry without the early return of line 76
NetEntry_NoUntrackedSkip(finalItems, e, inventory) ==
  LET s == FindIndex(inventory, LAMBDA i : toLowerCase(i.name) = e.name)
      stockAmount == IF s # 0 THEN inventory[s].amount ELSE 0
      finalAmount == Max(0, e.amount - stockAmount)
  IN IF finalAmount > 0
     THEN Append(finalItems, [name |-> e.name, amount |-> finalAmount,
                              unit |-> e.unit, category |-> e.category])
     ELSE finalItems

\* ShoppingList.tsx:72-84, one entry of `needed` netted against the inventory
NetEntry(finalItems, e, inventory) ==
  LET s == FindIndex(inventory, LAMBDA i : toLowerCase(i.name) = e.name)
      skip == s # 0 /\ Truthy(inventory[s], "untrackedAmount")
                     /\ ~(Has(inventory[s], "stockStatus")
                          /\ inventory[s].stockStatus = "out-of-stock")
      stockAmount == IF s # 0 THEN inventory[s].amount ELSE 0
      finalAmount == Max(0, e.amount - stockAmount)
  IN IF skip THEN finalItems
     ELSE IF finalAmount > 0
          THEN Append(finalItems, [name |-> e.name, amount |-> finalAmount,
                                   unit |-> e.unit, category |-> e.category])
          ELSE finalItems

RECURSIVE SubtractInventory(_, _, _)
SubtractInventory(finalItems, needed, inventory) ==
  IF needed = <<>> THEN finalItems
  ELSE SubtractInventory(NetEntry(finalItems, Head(needed), inventory), Tail(needed), inventory)

\* ReplenishItem pushing item.unit without the 'unit' default of lines 91 and 96
ReplenishItem_RawUnit(finalItems, item, replenish) ==
  LET status == IF Has(item, "stockStatus") THEN item.stockStatus ELSE "unset"
      wanted == \/ status = "out-of-stock"
                \/ status = "low-stock" /\ item.id \in replenish
      existing == FindIndex(finalItems,
                            LAMBDA i : toLowerCase(i.name) = toLowerCase(item.name))
  IN IF wanted /\ existing = 0
     THEN Append(finalItems, [name |-> item.name, amount |-> 1,
                              unit |-> item.unit,
                              category |-> OrElse(item, "category", "Other")])
     ELSE finalItems

\* ReplenishItem without the replenishItems.has(item.id) test of line 93
ReplenishItem_AllLowStock(finalItems, item, replenish) ==
  LET status == IF Has(item, "stockStatus") THEN item.stockStatus ELSE "unset"
      wanted == status = "out-of-stock" \/ status = "low-stock"
      existing == FindIndex(finalItems,
                            LAMBDA i : toLowerCase(i.name) = toLowerCase(item.name))
  IN IF wanted /\ existing = 0
     THEN Append(finalItems, [name |-> item.name, amount |-> 1,
                              unit |-> OrElse(item, "unit", "unit"),
                              category |-> OrElse(item, "category", "Other")])
     ELSE finalItems

\* ReplenishItem without the `!existing` test of lines 90 and 95
ReplenishItem_NoDedup(finalItems, item, replenish) ==
  LET status == IF Has(item, "stockStatus") THEN item.stockStatus ELSE "unset"
      wanted == \/ status = "out-of-stock"
                \/ status = "low-stock" /\ item.id \in replenish
  IN IF wanted
     THEN Append(finalItems, [name |-> item.name, amount |-> 1,
                              unit |-> OrElse(item, "unit", "unit"),
                              category |-> OrElse(item, "category", "Other")])
     ELSE finalItems

\* ShoppingList.tsx:88-98, one inventory item of the replenishment pass
ReplenishItem(finalItems, item, replenish) ==
  LET status == IF Has(item, "stockStatus") THEN item.stockStatus ELSE "unset"
      wanted == \/ status = "out-of-stock"
                \/ status = "low-stock" /\ item.id \in replenish
      existing == FindIndex(finalItems,
                            LAMBDA i : toLowerCase(i.name) = toLowerCase(item.name))
  IN IF wanted /\ existing = 0
     THEN Append(finalItems, [name |-> item.name, amount |-> 1,
                              unit |-> OrElse(item, "unit", "unit"),
                              category |-> OrElse(item, "category", "Other")])
     ELSE finalItems

RECURSIVE Replenish(_, _, _)
Replenish(finalItems, inventory, replenish) ==
  IF inventory = <<>> THEN finalItems
  ELSE Replenish(ReplenishItem(finalItems, Head(inventory), replenish), Tail(inventory), replenish)

\* ShoppingList.tsx:54-102
ShoppingListOf(plan, recipes, inventory, replenish) ==
  Replenish(SubtractInventory(<<>>, Needed(plan, recipes), inventory), inventory, replenish)

\* the memo's value in the current state
shoppingList ==
  ShoppingListOf(selectedRecipes, state.recipes, state.inventory, replenishItems)

\* ShoppingList.tsx:36-43
addToPlan(recipeId) ==
  /\ activeTab = "shopping"
  /\ \E r \in 1..Len(state.recipes) : state.recipes[r].id = recipeId
  /\ LET existing == FindIndex(selectedRecipes, LAMBDA r : r.recipeId = recipeId)
     IN IF existing # 0
        THEN /\ selectedRecipes[existing].count < MaxCount
             /\ selectedRecipes' = [selectedRecipes EXCEPT ![existing].count = @ + 1]
        ELSE selectedRecipes' = Append(selectedRecipes, [recipeId |-> recipeId, count |-> 1])
  /\ UNCHANGED <<state, storage, replenishItems, checkedItems, activeTab, reads, alert, nextId, lastUpdate>>

\* ShoppingList.tsx:45-52
updateCount(recipeId, delta) ==
  /\ activeTab = "shopping"
  /\ \E p \in 1..Len(selectedRecipes) :
        /\ selectedRecipes[p].recipeId = recipeId
        /\ selectedRecipes[p].count + delta <= MaxCount
  /\ selectedRecipes' =
       SelectSeq([p \in 1..Len(selectedRecipes) |->
                    IF selectedRecipes[p].recipeId = recipeId
                    THEN [selectedRecipes[p] EXCEPT !.count = Max(0, @ + delta)]
                    ELSE selectedRecipes[p]],
                 LAMBDA r : r.count > 0)
  /\ UNCHANGED <<state, storage, replenishItems, checkedItems, activeTab, reads, alert, nextId, lastUpdate>>

\* ShoppingList.tsx:111-116; the button is rendered for low-stock items (line 295)
toggleReplenish(id) ==
  /\ activeTab = "shopping"
  /\ \E i \in 1..Len(state.inventory) :
        /\ state.inventory[i].id = id
        /\ Has(state.inventory[i], "stockStatus")
        /\ state.inventory[i].stockStatus = "low-stock"
  /\ replenishItems' = IF id \in replenishItems
                       THEN replenishItems \ {id}
                       ELSE replenishItems \cup {id}
  /\ UNCHANGED <<state, storage, selectedRecipes, checkedItems, activeTab, reads, alert, nextId, lastUpdate>>

\* ShoppingList.tsx:104-109; a line of the list is clicked (line 369), and a
\* line is rendered under its category when the vocabulary has it
toggleCheck(name) ==
  /\ activeTab = "shopping"
  /\ \E e \in 1..Len(shoppingList) :
        /\ shoppingList[e].name = name
        /\ \E c \in 1..Len(state.categories) : state.categories[c] = shoppingList[e].category
  /\ checkedItems' = IF name \in checkedItems
                     THEN checkedItems \ {name}
                     ELSE checkedItems \cup {name}
  /\ UNCHANGED <<state, storage, selectedRecipes, replenishItems, activeTab, reads, alert,
                 nextId, lastUpdate>>

\* ShoppingList.tsx:122 and 355, the lines of the list shown under a category
ItemsOf(list, category) == SelectSeq(list, LAMBDA i : i.category = category)

\* ShoppingList.tsx:354-358, the groups on screen: one for each category of
\* the vocabulary that has lines, in the order of the vocabulary
renderedGroups ==
  SelectSeq([c \in 1..Len(state.categories) |->
               [category |-> state.categories[c],
                items |-> ItemsOf(shoppingList, state.categories[c])]],
            LAMBDA g : Len(g.items) > 0)

\* ShoppingList.tsx:121-131, the lines of text handleCopy writes after the
\* title: for each category of the vocabulary that has lines, its heading,
\* one line for each item and an empty line
RECURSIVE CopyLines(_, _, _)
CopyLines(text, categories, list) ==
  IF categories = <<>> THEN text
  ELSE LET items == ItemsOf(list, Head(categories))
       IN CopyLines(IF Len(items) > 0
                    THEN text \o <<[heading |-> Head(categories)]>>
                              \o [i \in 1..Len(items) |->
                                    [name |-> items[i].name, amount |-> items[i].amount,
                                     unit |-> items[i].unit]]
                              \o <<[empty |-> TRUE]>>
                    ELSE text,
                    Tail(categories), list)

\* ShoppingList.tsx:118-133, the text handed to the clipboard (before the
\* trim of its last empty line); nothing is copied for an empty list
copiedText ==
  IF Len(shoppingList) = 0 THEN <<>>
  ELSE CopyLines(<<[title |-> "SHOPPING LIST"]>>, state.categories, shoppingList)

(***************************************************************************)
(* App.tsx.                                                                *)
(***************************************************************************)
\* the branch addToInventory takes (App.tsx:121-141)
AddToInventoryPath(inventory, item) ==
  LET idx == FindIndex(inventory, LAMBDA i : SameName(i.name, item.name))
  IN IF idx = 0 THEN "append"
     ELSE IF Truthy(inventory[idx], "untrackedAmount") THEN "in-stock"
     ELSE "add"

\* AddToInventoryOf with line 129 assigning the line's amount instead of adding it
AddToInventoryOf_Replaces(inventory, item, id) ==
  LET idx == FindIndex(inventory, LAMBDA i : SameName(i.name, item.name))
      existing == inventory[idx]
  IN IF idx # 0
     THEN [inventory EXCEPT ![idx] =
             IF Truthy(existing, "untrackedAmount")
             THEN Put(existing, "stockStatus", "in-stock")
             ELSE Put(existing, "amount", item.amount)]
     ELSE Append(inventory, [id |-> id, name |-> item.name, amount |-> item.amount,
                             unit |-> item.unit, category |-> item.category,
                             untrackedAmount |-> TRUE, stockStatus |-> "in-stock"])

\* App.tsx:119-144, the inventory of the next aggregate
AddToInventoryOf(inventory, item, id) ==
  LET idx == FindIndex(inventory, LAMBDA i : SameName(i.name, item.name))
      existing == inventory[idx]
  IN IF idx # 0
     THEN [inventory EXCEPT ![idx] =
             IF Truthy(existing, "untrackedAmount")
             THEN Put(existing, "stockStatus", "in-stock")
             ELSE Put(existing, "amount", existing.amount + item.amount)]
     ELSE Append(inventory, [id |-> id, name |-> item.name, amount |-> item.amount,
                             unit |-> item.unit, category |-> item.category,
                             untrackedAmount |-> TRUE, stockStatus |-> "in-stock"])

\* the Add to Inventory button of a list line; a line is rendered under its
\* category when the vocabulary has it (ShoppingList.tsx:355-358, 396-399)
addToInventory(e) ==
  /\ activeTab = "shopping"
  /\ e \in 1..Len(shoppingList)
  /\ \E c \in 1..Len(state.categories) : state.categories[c] = shoppingList[e].category
  /\ LET item == shoppingList[e]
         path == AddToInventoryPath(state.inventory, item)
         next == AddToInventoryOf(state.inventory, item, Uuid(nextId))
     IN /\ path = "append" => nextId < MaxIds
        /\ InBounds(next)
        /\ Commit([state EXCEPT !.inventory = next], [op |-> "addToInventory", path |-> path])
        /\ nextId' = IF path = "append" THEN nextId + 1 ELSE nextId
  /\ UNCHANGED <<selectedRecipes, replenishItems, checkedItems, activeTab, reads, alert>>

\* App.tsx: setActiveTab; the component of the tab left is unmounted and the
\* plan and the replenish set of ShoppingList start empty at its next mount
setActiveTab(tab) ==
  /\ tab # activeTab
  /\ activeTab' = tab
  /\ selectedRecipes' = <<>>
  /\ replenishItems' = {}
  /\ checkedItems' = {}
  /\ UNCHANGED <<state, storage, reads, alert, nextId, lastUpdate>>

\* the page is loaded: App is constructed from the persisted document and the
\* mount effect persists the aggregate (App.tsx:78-92)
Mount(data) ==
  /\ state = InitialState(data)
  /\ storage = Stringify(state)
  /\ selectedRecipes = <<>>
  /\ replenishItems = {}
  /\ checkedItems = {}
  /\ activeTab = "recipes"
  /\ reads = {}
  /\ alert = ""
  /\ nextId = 0
  /\ lastUpdate = [op |-> "mount"]

\* the page is reloaded: every component state starts over from the document
Reload ==
  /\ state' = InitialState(storage)
  /\ storage' = Stringify(InitialState(storage))
  /\ selectedRecipes' = <<>>
  /\ replenishItems' = {}
  /\ checkedItems' = {}
  /\ activeTab' = "recipes"
  /\ reads' = {}
  /\ alert' = ""
  /\ lastUpdate' = [op |-> "mount"]
  /\ UNCHANGED nextId

\* App.tsx:94-98 up to the await: the read of the chosen file is started
handleImport(file) ==
  /\ file \notin reads
  /\ Cardinality(reads) < MaxReads
  /\ reads' = reads \cup {file}
  /\ UNCHANGED <<state, storage, selectedRecipes, replenishItems, checkedItems, activeTab, alert, nextId, lastUpdate>>

\* importSettled with a catch branch that falls back to the default aggregate
importSettled_FailureResets(file) ==
  /\ file \in reads
  /\ reads' = reads \ {file}
  /\ IF file.kind = "json"
     THEN Commit(AsAggregate(JsonParse(file)), [op |-> "import"]) /\ UNCHANGED alert
     ELSE /\ alert' = "Failed to import session. Please check the file format."
          /\ Commit(DefaultAggregate, [op |-> "import"])
  /\ UNCHANGED <<selectedRecipes, replenishItems, checkedItems, activeTab, nextId>>

\* importSettled merging the document into the aggregate: the inventory is kept
importSettled_KeepsInventory(file) ==
  /\ file \in reads
  /\ reads' = reads \ {file}
  /\ IF file.kind = "json"
     THEN /\ Commit([AsAggregate(JsonParse(file)) EXCEPT !.inventory = state.inventory],
                    [op |-> "import"])
          /\ UNCHANGED alert
     ELSE /\ alert' = "Failed to import session. Please check the file format."
          /\ UNCHANGED <<state, storage, lastUpdate>>
  /\ UNCHANGED <<selectedRecipes, replenishItems, checkedItems, activeTab, nextId>>

\* storage.ts:55-63 and App.tsx:98-102: the read of a file ends
importSettled(file) ==
  /\ file \in reads
  /\ reads' = reads \ {file}
  /\ IF file.kind = "json"
     THEN Commit(AsAggregate(JsonParse(file)), [op |-> "import"]) /\ UNCHANGED alert
     ELSE /\ alert' = "Failed to import session. Please check the file format."
          /\ UNCHANGED <<state, storage, lastUpdate>>
  /\ UNCHANGED <<selectedRecipes, replenishItems, checkedItems, activeTab, nextId>>

(***************************************************************************)
(* SettingsManager.tsx.                                                    *)
(***************************************************************************)
Includes(s, x) == \E i \in 1..Len(s) : s[i] = x

\* SettingsManager.tsx:24-31
addCategory(newCategory) ==
  /\ activeTab = "settings"
  /\ Trim(newCategory) # ""
  /\ ~Includes(state.categories, Trim(newCategory))
  /\ Commit([state EXCEPT !.categories = Append(@, Trim(newCategory))], [op |-> "addCategory"])
  /\ UNCHANGED <<selectedRecipes, replenishItems, checkedItems, activeTab, reads, alert, nextId>>

\* RemoveCategoryOf without the inventory map of line 58
RemoveCategoryOf_KeepsInventory(s, category) ==
  [s EXCEPT
     !.categories = SelectSeq(@, LAMBDA c : c # category),
     !.recipes = [r \in 1..Len(@) |->
                    [@[r] EXCEPT !.ingredients =
                       [i \in 1..Len(@) |->
                          IF Has(@[i], "category") /\ @[i].category = category
                          THEN Put(@[i], "category", "Other") ELSE @[i]]]]]

\* SettingsManager.tsx:50-59, the aggregate handed to onUpdateState
RemoveCategoryOf(s, category) ==
  [s EXCEPT
     !.categories = SelectSeq(@, LAMBDA c : c # category),
     !.recipes = [r \in 1..Len(@) |->
                    [@[r] EXCEPT !.ingredients =
                       [i \in 1..Len(@) |->
                          IF Has(@[i], "category") /\ @[i].category = category
                          THEN Put(@[i], "category", "Other") ELSE @[i]]]],
     !.inventory = [i \in 1..Len(@) |->
                      IF Has(@[i], "category") /\ @[i].category = category
                      THEN Put(@[i], "category", "Other") ELSE @[i]]]

\* SettingsManager.tsx:45-60; the delete button of a category of the vocabulary
removeCategory(category) ==
  /\ activeTab = "settings"
  /\ Includes(state.categories, category)
  /\ IF Len(state.categories) <= 1
     THEN /\ alert' = "You must have at least one category."
          /\ UNCHANGED <<state, storage, lastUpdate>>
     ELSE /\ Commit(RemoveCategoryOf(state, category), [op |-> "removeCategory"])
          /\ UNCHANGED alert
  /\ UNCHANGED <<selectedRecipes, replenishItems, checkedItems, activeTab, reads, nextId>>

\* SettingsManager.tsx:62-69
clearInventory(confirmed) ==
  /\ activeTab = "settings"
  /\ IF confirmed
     THEN Commit([state EXCEPT !.inventory = <<>>], [op |-> "clearInventory"])
     ELSE UNCHANGED <<state, storage, lastUpdate>>
  /\ UNCHANGED <<selectedRecipes, replenishItems, checkedItems, activeTab, reads, alert, nextId>>

\* SettingsManager.tsx:71-80
resetAll(confirmed) ==
  /\ activeTab = "settings"
  /\ IF confirmed
     THEN Commit([recipes |-> <<>>, inventory |-> <<>>,
                  customTags |-> <<"Breakfast", "Lunch", "Dinner", "Snack", "Dessert",
                                   "Vegetarian", "Vegan", "Quick">>,
                  categories |-> <<"Produce", "Dairy", "Meat", "Bakery", "Frozen", "Pantry",
                                   "Beverages", "Household", "Other">>],
                 [op |-> "resetAll"])
     ELSE UNCHANGED <<state, storage, lastUpdate>>
  /\ UNCHANGED <<selectedRecipes, replenishItems, checkedItems, activeTab, reads, alert, nextId>>

\* SettingsManager.tsx:15-22
addTag(newTag) ==
  /\ activeTab = "settings"
  /\ Trim(newTag) # ""
  /\ ~Includes(state.customTags, Trim(newTag))
  /\ Commit([state EXCEPT !.customTags = Append(@, Trim(newTag))], [op |-> "addTag"])
  /\ UNCHANGED <<selectedRecipes, replenishItems, checkedItems, activeTab, reads, alert, nextId>>

\* RemoveTagOf without the cascade over the recipes of lines 38-41
RemoveTagOf_VocabularyOnly(s, tag) ==
  [s EXCEPT !.customTags = SelectSeq(@, LAMBDA t : t # tag)]

\* SettingsManager.tsx:34-42, the aggregate handed to onUpdateState
RemoveTagOf(s, tag) ==
  [s EXCEPT
     !.customTags = SelectSeq(@, LAMBDA t : t # tag),
     !.recipes = [r \in 1..Len(@) |->
                    [@[r] EXCEPT !.tags = SelectSeq(@, LAMBDA t : t # tag)]]]

\* SettingsManager.tsx:33-43; the delete button of a tag of the vocabulary
removeTag(tag) ==
  /\ activeTab = "settings"
  /\ Includes(state.customTags, tag)
  /\ Commit(RemoveTagOf(state, tag), [op |-> "removeTag"])
  /\ UNCHANGED <<selectedRecipes, replenishItems, checkedItems, activeTab, reads, alert, nextId>>

(***************************************************************************)
(* App.tsx: the recipe handlers.                                           *)
(***************************************************************************)
\* SaveRecipeOf without the lookup of lines 149-150: the recipe is always appended
SaveRecipeOf_AlwaysAppends(s, recipe) == [s EXCEPT !.recipes = Append(@, recipe)]

\* App.tsx:147-159, the next aggregate
SaveRecipeOf(s, recipe) ==
  IF \E r \in 1..Len(s.recipes) : s.recipes[r].id = recipe.id
  THEN [s EXCEPT !.recipes = [r \in 1..Len(@) |->
                                IF @[r].id = recipe.id THEN recipe ELSE @[r]]]
  ELSE [s EXCEPT !.recipes = Append(@, recipe)]

\* App.tsx:146-162, called by RecipeForm.handleSubmit (RecipeForm.tsx:52-55):
\* the recipe keeps its id when it was edited and gets a fresh one otherwise
saveRecipe(recipe) ==
  /\ activeTab = "recipes"
  /\ recipe.id = Uuid(nextId) => nextId < MaxIds
  /\ Commit(SaveRecipeOf(state, recipe), [op |-> "saveRecipe"])
  /\ nextId' = IF recipe.id = Uuid(nextId) THEN nextId + 1 ELSE nextId
  /\ UNCHANGED <<selectedRecipes, replenishItems, checkedItems, activeTab, reads, alert>>

\* DeleteRecipeOf without the id test of line 168: every recipe goes
DeleteRecipeOf_All(s, id) == [s EXCEPT !.recipes = <<>>]

\* App.tsx:166-169, the next aggregate
DeleteRecipeOf(s, id) == [s EXCEPT !.recipes = SelectSeq(@, LAMBDA r : r.id # id)]

\* App.tsx:164-172; the delete button of a recipe of the collection
deleteRecipe(id, confirmed) ==
  /\ activeTab = "recipes"
  /\ \E r \in 1..Len(state.recipes) : state.recipes[r].id = id
  /\ IF confirmed
     THEN Commit(DeleteRecipeOf(state, id), [op |-> "deleteRecipe"])
     ELSE UNCHANGED <<state, storage, lastUpdate>>
  /\ UNCHANGED <<selectedRecipes, replenishItems, checkedItems, activeTab, reads, alert, nextId>>

(***************************************************************************)
(* RecipeCard.                                                             *)
(***************************************************************************)
\* MissingAdd taking an untracked item that is not out of stock as sufficient
MissingAdd_UntrackedSuffices(missing, req, inventory) ==
  LET s == FindIndex(inventory, LAMBDA i : toLowerCase(i.name) = toLowerCase(req.name))
  IN IF s = 0 \/ (inventory[s].amount < req.amount
                   /\ ~(Truthy(inventory[s], "untrackedAmount")
                        /\ OrElse(inventory[s], "stockStatus", "in-stock") # "out-of-stock"))
     THEN IF ~Truthy(req, "optional") THEN Append(missing, req.name) ELSE missing
     ELSE missing

\* the body of the forEach of checkCookability (lines 16-19)
MissingAdd(missing, req, inventory) ==
  LET s == FindIndex(inventory, LAMBDA i : toLowerCase(i.name) = toLowerCase(req.name))
  IN IF s = 0 \/ inventory[s].amount < req.amount
     THEN IF ~Truthy(req, "optional") THEN Append(missing, req.name) ELSE missing
     ELSE missing

RECURSIVE MissingOf(_, _, _)
MissingOf(missing, ings, inventory) ==
  IF ings = <<>> THEN missing
  ELSE MissingOf(MissingAdd(missing, Head(ings), inventory), Tail(ings), inventory)

\* checkCookability of the card of a recipe (lines 13-22)
checkCookability(recipe, inventory) == MissingOf(<<>>, recipe.ingredients, inventory)

\* the cards of the recipes tab: missingIngredients and canCook (lines 24-25)
missingIngredients(r) == checkCookability(state.recipes[r], state.inventory)

canCook(r) == Len(missingIngredients(r)) = 0

(***************************************************************************)
(* Input domains.                                                          *)
(***************************************************************************)
StockStatuses == {"in-stock", "low-stock", "out-of-stock"}

\* the optional stock fields an inventory item can carry: a tracked item with
\* no status (the seed items of App.tsx), a tracked item left with a low or
\* out-of-stock status, an untracked item with each status or none
StockFields ==
  {<<>>, [untrackedAmount |-> TRUE]}
  \cup {[untrackedAmount |-> FALSE, stockStatus |-> st] : st \in {"low-stock", "out-of-stock"}}
  \cup {[untrackedAmount |-> TRUE, stockStatus |-> st] : st \in StockStatuses}

\* unit and category travel with the spelling of the name: "milk" has both,
\* "Milk" has an empty unit and no category, "egg" has an empty category
ItemShape(n) ==
  IF n = "milk" THEN [unit |-> "ml", category |-> "Dairy"]
  ELSE IF n = "Milk" THEN [unit |-> ""]
  ELSE [unit |-> "pcs", category |-> ""]

Item(id, n, a, f) == Merge(Merge([id |-> id, name |-> n, amount |-> a], ItemShape(n)), f)

ItemsWithId(id, amounts) ==
  {Item(id, n, a, f) : n \in Names, a \in amounts, f \in StockFields}

\* inventories of at most two items, same-named items included; the items of a
\* two-item inventory are empty or hold MaxAmount
Inventories ==
  {<<>>} \cup {<<a>> : a \in ItemsWithId("inv1", 0..MaxAmount)}
         \cup {<<a, b>> : a \in ItemsWithId("inv1", {0, MaxAmount}),
                          b \in ItemsWithId("inv2", {0, MaxAmount})}

Ing(id, n, a, u) == [id |-> id, name |-> n, amount |-> a, unit |-> u]

\* the two-recipe catalog of the netting checks; `a` is the amount of the second recipe's line
Catalog(a) ==
  << [id |-> "1", name |-> "Latte", tags |-> <<"Breakfast">>,
      ingredients |-> << Put(Ing("i1", "Milk", 1, "ml"), "category", "Dairy"),
                         Ing("i2", "egg", 2, "pcs") >>],
     [id |-> "2", name |-> "Custard", tags |-> <<>>,
      ingredients |-> << Put(Ing("i3", "milk", a, "g"), "category", "Pantry") >>] >>

\* a plan entry left behind by a recipe that is no longer in the catalog
StalePlans == {<<>>, <<[recipeId |-> "9", count |-> 1]>>}

Aggregate(recipes, inventory) ==
  [recipes |-> recipes, inventory |-> inventory,
   customTags |-> DEFAULT_TAGS, categories |-> DEFAULT_CATEGORIES]

(***************************************************************************)
(* SpecList: the shopping list over every inventory of the domain.         *)
(***************************************************************************)
InitList ==
  /\ \E inv \in Inventories : state = Aggregate(Catalog(MaxAmount), inv)
  /\ storage = Stringify(state)
  /\ selectedRecipes = <<>>
  /\ replenishItems = {}
  /\ checkedItems = {}
  /\ activeTab = "shopping"
  /\ reads = {}
  /\ alert = ""
  /\ nextId = 0
  /\ lastUpdate = [op |-> "mount"]

NextList ==
  \/ \E r \in {"1", "2"} : addToPlan(r)
  \/ \E r \in {"1", "2"}, d \in {-1, 1} : updateCount(r, d)
  \/ \E id \in {"inv1", "inv2"} : toggleReplenish(id)

SpecList == InitList /\ [][NextList]_vars

(***************************************************************************)
(* SpecDemand: the demand aggregation over every catalog of the domain.    *)
(***************************************************************************)
\* a recipe line: with unit "g" it carries a category, with unit "ml" it has none
Line(n, a, u) ==
  IF u = "g" THEN Put(Ing("i", n, a, u), "category", "Dairy") ELSE Ing("i", n, a, u)

Lines == {Line(n, a, u) : n \in Names, a \in {1, MaxAmount}, u \in {"g", "ml"}}

Recipe(id, ings) == [id |-> id, name |-> id, tags |-> <<>>, ingredients |-> ings]

\* recipe "1" has up to two lines (the same name twice included), recipe "2" up to one
Catalogs ==
  {<<Recipe("1", i1), Recipe("2", i2)>> :
     i1 \in {<<>>} \cup {<<a>> : a \in Lines} \cup {<<a, b>> : a \in Lines, b \in Lines},
     i2 \in {<<>>} \cup {<<a>> : a \in Lines}}

InitDemand ==
  /\ \E c \in Catalogs : state = Aggregate(c, <<>>)
  /\ storage = Stringify(state)
  /\ selectedRecipes \in StalePlans
  /\ replenishItems = {}
  /\ checkedItems = {}
  /\ activeTab = "shopping"
  /\ reads = {}
  /\ alert = ""
  /\ nextId = 0
  /\ lastUpdate = [op |-> "mount"]

NextDemand ==
  \/ \E r \in {"1", "2"} : addToPlan(r)
  \/ \E r \in {"1", "2", "9"}, d \in {-1, 1} : updateCount(r, d)

SpecDemand == InitDemand /\ [][NextDemand]_vars

(***************************************************************************)
(* SpecInv: the inventory rules, from an inventory of non-negative amounts.*)
(***************************************************************************)
\* what the add form of InventoryManager can hold when Add is pressed: the
\* amount typed while tracking was on stays in the form when it is switched off
NewItems ==
  {[name |-> n, amount |-> a, unit |-> "pcs", category |-> "Other",
    untrackedAmount |-> u, stockStatus |-> st] :
     n \in {"milk", "Milk"}, a \in {-1, 0, 1}, u \in BOOLEAN, st \in StockStatuses}

\* the seed inventory of App.tsx:67-70 has tracked items without a status
SeedInventories == {<<>>, <<Item("inv1", "egg", 1, <<>>)>>}

InitInv ==
  /\ \E inv \in SeedInventories : state = Aggregate(Catalog(MaxAmount), inv)
  /\ storage = Stringify(state)
  /\ selectedRecipes = <<>>
  /\ replenishItems = {}
  /\ checkedItems = {}
  /\ activeTab = "inventory"
  /\ reads = {}
  /\ alert = ""
  /\ nextId = 0
  /\ lastUpdate = [op |-> "mount"]

ItemIds == {"inv1", "inv2", "u1", "u2", "u3", "u4"}

NextInv ==
  \/ \E n \in NewItems : addItem(n)
  \/ \E id \in ItemIds, d \in {-1, 1} : updateAmount(id, d)
  \/ \E id \in ItemIds : toggleUntracked(id)
  \/ \E id \in ItemIds, st \in StockStatuses : setStockStatus(id, st)
  \/ \E t \in {"inventory", "shopping"} : setActiveTab(t)
  \/ addToPlan("2")
  \/ \E e \in 1..2 : addToInventory(e)

SpecInv == InitInv /\ [][NextInv]_vars

(***************************************************************************)
(* Spec: the application from startup, its settings and its persistence.   *)
(***************************************************************************)
\* documents a user can import: a small session, and one whose category list is empty
SmallSession ==
  [recipes |-> <<Recipe("7", <<Line("egg", 1, "g")>>)>>,
   inventory |-> <<Item("inv7", "milk", 1, <<>>)>>,
   customTags |-> <<"Quick">>,
   categories |-> <<"Dairy", "Other">>]

\* the text of SmallSession with the numeral 1e999 as the amount of its item
Overflowing ==
  LET t == Stringify(SmallSession).value
  IN Json([t EXCEPT !.inventory =
             Arr(<<[t.inventory.arr[1] EXCEPT !.amount = [lit |-> "num", v |-> Infinity]]>>)])

ImportFiles ==
  {Stringify(SmallSession), Stringify([SmallSession EXCEPT !.categories = <<>>]),
   Overflowing, Garbage, Unreadable}

CategoryInputs == {"", "Dairy", " Spices "}

\* the categories whose delete button the user presses: one that recipes and
\* items carry, the fallback, one nothing carries, and the one the user added
Deletable == {"Dairy", "Other", "Meat", "Spices"}

Init == \E data \in {NoItem, Garbage} : Mount(data)

Next ==
  \/ \E t \in {"recipes", "settings"} : setActiveTab(t)
  \/ \E c \in CategoryInputs : addCategory(c)
  \/ \E c \in Deletable : removeCategory(c)
  \/ \E ok \in BOOLEAN : clearInventory(ok)
  \/ \E ok \in BOOLEAN : resetAll(ok)
  \/ \E f \in ImportFiles : handleImport(f)
  \/ \E f \in ImportFiles : importSettled(f)
  \/ Reload

Spec == Init /\ [][Next]_vars

(***************************************************************************)
(* SpecSettings: the settings cascade and the confirmed operations over    *)
(* one small session whose recipes and items carry tags and categories.    *)
(***************************************************************************)
AppRecipes ==
  << [id |-> "1", name |-> "Latte", description |-> "", instructions |-> "",
      tags |-> <<"Quick", "Vegan", "Dinner">>, prepTime |-> 5,
      ingredients |-> << Put(Ing("i1", "Milk", 1, "ml"), "category", "Dairy"),
                         Ing("i2", "egg", 2, "pcs") >>],
     [id |-> "2", name |-> "Custard", description |-> "", instructions |-> "",
      tags |-> <<"Vegan">>,
      ingredients |-> << Put(Ing("i3", "milk", 1, "g"), "category", "Pantry"),
                         Put(Put(Ing("i4", "egg", 1, "pcs"), "category", "Dairy"),
                             "optional", TRUE) >>] >>

AppInventory ==
  << Item("inv1", "milk", 1, [untrackedAmount |-> FALSE, stockStatus |-> "low-stock"]),
     Put(Item("inv2", "egg", 2, <<>>), "category", "Pantry") >>

AppVocabularies == {<<"Dairy", "Other">>, <<"Dairy", "Pantry", "Other">>}

AppTags == <<"Quick", "Vegan", "Dinner">>

InitSettings ==
  /\ \E cats \in AppVocabularies :
        state = [recipes |-> AppRecipes, inventory |-> AppInventory,
                 customTags |-> AppTags, categories |-> cats]
  /\ storage = Stringify(state)
  /\ selectedRecipes = <<>>
  /\ replenishItems = {}
  /\ checkedItems = {}
  /\ activeTab = "settings"
  /\ reads = {}
  /\ alert = ""
  /\ nextId = 0
  /\ lastUpdate = [op |-> "mount"]

TagInputs == {"", "Vegan", " Spices "}

RemovableTags == {"Quick", "Vegan", "Spices"}

RemovableCategories == {"Dairy", "Pantry", "Other"}

NextSettings ==
  \/ \E t \in {"recipes", "settings"} : setActiveTab(t)
  \/ \E t \in TagInputs : addTag(t)
  \/ \E t \in RemovableTags : removeTag(t)
  \/ \E c \in RemovableCategories : removeCategory(c)
  \/ \E ok \in BOOLEAN : clearInventory(ok)
  \/ \E ok \in BOOLEAN : resetAll(ok)
  \/ \E id \in {"1", "2"}, ok \in BOOLEAN : deleteRecipe(id, ok)

SpecSettings == InitSettings /\ [][NextSettings]_vars

(***************************************************************************)
(* SpecPersist: one mutation of each kind (inventory, recipe, settings,    *)
(* import), tab switches and reloads, from the first start.                *)
(***************************************************************************)
\* what RecipeForm hands to saveRecipe for a new recipe without ingredients
NewRecipe ==
  [id |-> Uuid(nextId), name |-> "Toast", description |-> "", instructions |-> "",
   tags |-> <<"Quick">>, prepTime |-> 30, ingredients |-> <<>>]

\* what RecipeForm.handleSubmit hands to saveRecipe (RecipeForm.tsx:52-55): the
\* id of the edited recipe or a fresh one, and one ingredient added with the
\* category chosen in the form (RecipeForm.tsx:27-36)
FormRecipe(id, category) ==
  [id |-> id, name |-> "Toast", description |-> "", instructions |-> "",
   tags |-> <<"Quick">>, prepTime |-> 30,
   ingredients |-> <<[id |-> "n1", name |-> "egg", amount |-> 1, unit |-> "pcs",
                      category |-> category]>>]

PersistForm ==
  [name |-> "milk", amount |-> 1, unit |-> "pcs", category |-> "Other",
   untrackedAmount |-> FALSE, stockStatus |-> "in-stock"]

PersistFiles == {Stringify(SmallSession), Garbage}

InitPersist == Mount(NoItem)

NextPersist ==
  \/ \E t \in {"recipes", "inventory", "settings"} : setActiveTab(t)
  \/ addItem(PersistForm)
  \/ \E id \in {"inv1", "u1", "u2"} : updateAmount(id, -1)
  \/ saveRecipe(NewRecipe)
  \/ \E id \in {"1", "7"} : deleteRecipe(id, TRUE)
  \/ removeTag("Quick")
  \/ removeCategory("Other")
  \/ clearInventory(TRUE)
  \/ \E f \in PersistFiles : handleImport(f)
  \/ \E f \in PersistFiles : importSettled(f)
  \/ Reload

SpecPersist == InitPersist /\ [][NextPersist]_vars

(***************************************************************************)
(* SpecLoad: the persistence loader over the documents localStorage can    *)
(* hold when the page is loaded.                                           *)
(***************************************************************************)
Fields == {"recipes", "inventory", "customTags", "categories"}

\* a property of a stored document is missing, null, an empty array or the
\* array SmallSession has
Shapes == {"missing", "null", "empty", "full"}

Document(shape) ==
  Json([k \in {f \in Fields : shape[f] # "missing"} |->
          IF shape[k] = "null" THEN JsNull
          ELSE IF shape[k] = "empty" THEN Arr(<<>>)
          ELSE Stringify(SmallSession).value[k]])

Documents == {NoItem, Garbage, NullText} \cup {Document(sh) : sh \in [Fields -> Shapes]}

\* the aggregate before App is constructed: nothing
Unmounted == [recipes |-> <<>>, inventory |-> <<>>, customTags |-> <<>>, categories |-> <<>>]

InitLoad ==
  /\ storage \in Documents
  /\ state = Unmounted
  /\ selectedRecipes = <<>>
  /\ replenishItems = {}
  /\ checkedItems = {}
  /\ activeTab = "recipes"
  /\ reads = {}
  /\ alert = ""
  /\ nextId = 0
  /\ lastUpdate = [op |-> "boot"]

\* App.tsx:79, the call of loadFromLocalStorage in the state initializer
Load ==
  /\ lastUpdate = [op |-> "boot"]
  /\ state' = loadFromLocalStorage(storage)
  /\ lastUpdate' = [op |-> "load"]
  /\ UNCHANGED <<storage, selectedRecipes, replenishItems, checkedItems, activeTab, reads,
                 alert, nextId>>

\* App.tsx:80-92, the choice of the seed data and the save effect of the mount
Seed ==
  /\ lastUpdate = [op |-> "load"]
  /\ Commit(IF Len(state.recipes) > 0 THEN state ELSE INITIAL_DATA, [op |-> "mount"])
  /\ UNCHANGED <<selectedRecipes, replenishItems, checkedItems, activeTab, reads, alert, nextId>>

NextLoad == Load \/ Seed

SpecLoad == InitLoad /\ [][NextLoad]_vars

(***************************************************************************)
(* SpecCook: the recipe cards over every inventory of the domain, while    *)
(* the inventory tab changes amounts and tracking.                         *)
(***************************************************************************)
InitCook ==
  /\ \E inv \in Inventories : state = Aggregate(AppRecipes, inv)
  /\ storage = Stringify(state)
  /\ selectedRecipes = <<>>
  /\ replenishItems = {}
  /\ checkedItems = {}
  /\ activeTab = "recipes"
  /\ reads = {}
  /\ alert = ""
  /\ nextId = 0
  /\ lastUpdate = [op |-> "mount"]

NextCook ==
  \/ \E t \in {"recipes", "inventory"} : setActiveTab(t)
  \/ \E id \in {"inv1", "inv2"}, d \in {-1, 1} : updateAmount(id, d)
  \/ \E id \in {"inv1", "inv2"} : toggleUntracked(id)

SpecCook == InitCook /\ [][NextCook]_vars

(***************************************************************************)
(* SpecCheck: the plan and the ticked lines of the shopping list.          *)
(***************************************************************************)
InitCheck ==
  /\ \E inv \in {<<>>} \cup {<<a>> : a \in ItemsWithId("inv1", {0})} :
        state = Aggregate(Catalog(MaxAmount), inv)
  /\ storage = Stringify(state)
  /\ selectedRecipes = <<>>
  /\ replenishItems = {}
  /\ checkedItems = {}
  /\ activeTab = "shopping"
  /\ reads = {}
  /\ alert = ""
  /\ nextId = 0
  /\ lastUpdate = [op |-> "mount"]

NextCheck ==
  \/ \E r \in {"1", "2"} : addToPlan(r)
  \/ \E r \in {"1", "2"}, d \in {-1, 1} : updateCount(r, d)
  \/ \E n \in Names : toggleCheck(n)

SpecCheck == InitCheck /\ [][NextCheck]_vars

(***************************************************************************)
(* SpecCategories: the category vocabulary against the categories that     *)
(* items, ingredients and list lines carry, from the seed data.            *)
(***************************************************************************)
NextCategories ==
  \/ \E t \in {"recipes", "inventory", "shopping", "settings"} : setActiveTab(t)
  \/ \E c \in {"", " Spices "} : addCategory(c)
  \/ \E c \in {"Other", "Bakery", "Spices"} : removeCategory(c)
  \/ \E c \in {"Other", "Spices"} :
        /\ c = "Other" \/ Includes(state.categories, c)
        /\ addItem([PersistForm EXCEPT !.category = c])
  \/ \E c \in {"Other", "Spices", "Produce"} : updateCategory("inv1", c)
  \/ \E c \in {"Other", "Spices"} :
        /\ c = "Other" \/ Includes(state.categories, c)
        /\ saveRecipe(FormRecipe(Uuid(nextId), c))
  \/ addToPlan("1")

SpecCategories == InitPersist /\ [][NextCategories]_vars

(***************************************************************************)
(* SpecRecipes: the recipe collection from the seed data: recipes are      *)
(* created, edited and deleted.                                            *)
(***************************************************************************)
NextRecipes ==
  \/ \E r \in 1..Len(state.recipes), c \in {"Other", "Dairy"} :
        saveRecipe(FormRecipe(state.recipes[r].id, c))
  \/ \E c \in {"Other", "Dairy"} : saveRecipe(FormRecipe(Uuid(nextId), c))
  \/ \E id \in {"1", "2", "u1", "u2"}, ok \in BOOLEAN : deleteRecipe(id, ok)

SpecRecipes == InitPersist /\ [][NextRecipes]_vars

(***************************************************************************)
(* Vocabulary of the properties.                                           *)
(***************************************************************************)
RECURSIVE SumOver(_, _)
SumOver(f, S) ==
  IF S = {} THEN 0
  ELSE LET x == CHOOSE y \in S : TRUE IN f[x] + SumOver(f, S \ {x})

\* the catalog position of the recipe a plan entry names, 0 when it names none
PlannedRecipe(p) ==
  FindIndex(state.recipes, LAMBDA r : r.id = selectedRecipes[p].recipeId)

\* every ingredient line the plan reaches: <<plan position, ingredient position>>
PlannedLines ==
  UNION {{<<p, k>> : k \in 1..Len(state.recipes[PlannedRecipe(p)].ingredients)} :
           p \in {q \in 1..Len(selectedRecipes) : PlannedRecipe(q) # 0}}

LineOf(pk) == state.recipes[PlannedRecipe(pk[1])].ingredients[pk[2]]

LinesNamed(n) == {pk \in PlannedLines : toLowerCase(LineOf(pk).name) = n}

PlannedNames == {toLowerCase(LineOf(pk).name) : pk \in PlannedLines}

\* D: amount x count summed over every line of that name
Demand(n) ==
  SumOver([pk \in LinesNamed(n) |-> LineOf(pk).amount * selectedRecipes[pk[1]].count],
          LinesNamed(n))

\* the inventory item the aggregator matches to a name, 0 when there is none
Match(n) == FindIndex(state.inventory, LAMBDA i : toLowerCase(i.name) = n)

StatusOf(item) == IF Has(item, "stockStatus") THEN item.stockStatus ELSE "unset"

IsUntracked(item) == Has(item, "untrackedAmount") /\ item.untrackedAmount

\* S: the matched item's amount, 0 without a match
Stock(n) == IF Match(n) = 0 THEN 0 ELSE state.inventory[Match(n)].amount

\* the demand for n is netted against the stock rather than waved through
IsNetted(n) ==
  \/ Match(n) = 0
  \/ ~IsUntracked(state.inventory[Match(n)])
  \/ StatusOf(state.inventory[Match(n)]) = "out-of-stock"

\* positions of a list's entries of a name
Entries(list, n) == {i \in 1..Len(list) : toLowerCase(list[i].name) = n}

\* the item is put on the list by the replenishment pass
IsFlagged(item) ==
  \/ StatusOf(item) = "out-of-stock"
  \/ StatusOf(item) = "low-stock" /\ item.id \in replenishItems

InventoryNamed(n) ==
  {i \in 1..Len(state.inventory) : toLowerCase(state.inventory[i].name) = n}

\* an entry written by the replenishment pass for some item
IsReplenishLine(e) ==
  /\ e.amount = 1
  /\ \E i \in 1..Len(state.inventory) :
        IsFlagged(state.inventory[i]) /\ e.name = state.inventory[i].name

\* the list has a demand entry for n
HasDemandEntry(n) == IsNetted(n) /\ Demand(n) - Stock(n) > 0

FirstLine(n) ==
  CHOOSE pk \in LinesNamed(n) :
    \A o \in LinesNamed(n) : pk[1] < o[1] \/ (pk[1] = o[1] /\ pk[2] <= o[2])

C3_CoveredAbsent_Original ==
  LET list == shoppingList
  IN \A n \in PlannedNames :
       (\E i \in InventoryNamed(n) :
           /\ ~IsUntracked(state.inventory[i])
           /\ state.inventory[i].amount >= Demand(n))
       => Entries(list, n) = {}

(***************************************************************************)
(* C3 amended: an ingredient of the plan whose demand is fully covered by  *)
(* the amount of the item matched to it (the first inventory item of that  *)
(* name), that item being tracked, is not on the list, provided no         *)
(* inventory item of that name is out-of-stock, or low-stock with its id   *)
(* in the replenish set.                                                   *)
(***************************************************************************)
C3_CoveredAbsent ==
  LET list == shoppingList
  IN \A n \in PlannedNames :
       (/\ Match(n) # 0
        /\ ~IsUntracked(state.inventory[Match(n)])
        /\ Stock(n) >= Demand(n)
        /\ \A i \in InventoryNamed(n) : ~IsFlagged(state.inventory[i]))
       => Entries(list, n) = {}

\* a positive demand for milk, covered by a tracked item, and no milk on the list
C3_Witness ==
  /\ "milk" \in PlannedNames
  /\ Demand("milk") > 0
  /\ Match("milk") # 0
  /\ ~IsUntracked(state.inventory[Match("milk")])
  /\ Stock("milk") >= Demand("milk")
  /\ \A i \in InventoryNamed("milk") : ~IsFlagged(state.inventory[i])
  /\ Entries(shoppingList, "milk") = {}

(***************************************************************************)
(* C4 as stated: an untracked inventory item that is not out-of-stock has  *)
(* no entry of its name on the list, whatever the demand, the inventory    *)
(* and the replenish set.                                                  *)
(***************************************************************************)
C4_UntrackedAbsent_Original ==
  LET list == shoppingList
  IN \A i \in 1..Len(state.inventory) :
       (/\ IsUntracked(state.inventory[i])
        /\ StatusOf(state.inventory[i]) # "out-of-stock")
       => Entries(list, toLowerCase(state.inventory[i].name)) = {}

(***************************************************************************)
(* C4 amended: an untracked inventory item that is not out-of-stock and is *)
(* the first inventory item of its name has no entry of its name on the    *)
(* list, whatever the demand, provided no inventory item of that name (the *)
(* item itself included) is out-of-stock, or low-stock with its id in the  *)
(* replenish set.                                                          *)
(***************************************************************************)
C4_UntrackedAbsent ==
  LET list == shoppingList
  IN \A i \in 1..Len(state.inventory) :
       LET n == toLowerCase(state.inventory[i].name)
       IN (/\ IsUntracked(state.inventory[i])
           /\ StatusOf(state.inventory[i]) # "out-of-stock"
           /\ Match(n) = i
           /\ \A j \in InventoryNamed(n) : ~IsFlagged(state.inventory[j]))
          => Entries(list, n) = {}

\* the avocado case: an untracked in-stock item, a demand its amount does not cover, no entry
C4_Witness ==
  /\ "milk" \in PlannedNames
  /\ Match("milk") # 0
  /\ IsUntracked(state.inventory[Match("milk")])
  /\ StatusOf(state.inventory[Match("milk")]) = "in-stock"
  /\ Demand("milk") > Stock("milk")
  /\ Entries(shoppingList, "milk") = {}

(***************************************************************************)
(* C5 as stated: every out-of-stock inventory item has an entry of its     *)
(* name on the list; when the list has no demand entry of that name, the   *)
(* entry has amount 1, the item's own unit (or 'unit') and the item's own  *)
(* category (or 'Other').                                                  *)
(***************************************************************************)
C5_OutOfStockListed_Original ==
  LET list == shoppingList
  IN \A i \in 1..Len(state.inventory) :
       LET item == state.inventory[i]
           n == toLowerCase(item.name)
       IN StatusOf(item) = "out-of-stock" =>
            /\ Entries(list, n) # {}
            /\ ~HasDemandEntry(n) =>
                 \A e \in Entries(list, n) :
                   /\ list[e].amount = 1
                   /\ list[e].unit = OrElse(item, "unit", "unit")
                   /\ list[e].category = OrElse(item, "category", "Other")

\* the first inventory item of a name that the replenishment pass puts on the list
FirstFlagged(n) ==
  FindIndex(state.inventory, LAMBDA x : toLowerCase(x.name) = n /\ IsFlagged(x))

(***************************************************************************)
(* C5 amended: every out-of-stock inventory item has exactly one entry of  *)
(* its name on the list; when the list has no demand entry of that name,   *)
(* the entry has amount 1 and the name, unit (or 'unit') and category (or  *)
(* 'Other') of the first inventory item of that name that is out-of-stock, *)
(* or low-stock with its id in the replenish set: the item's own when no   *)
(* such item of its name precedes it.                                      *)
(***************************************************************************)
C5_OutOfStockListed ==
  LET list == shoppingList
  IN \A i \in 1..Len(state.inventory) :
       LET item == state.inventory[i]
           n == toLowerCase(item.name)
           first == state.inventory[FirstFlagged(n)]
       IN StatusOf(item) = "out-of-stock" =>
            /\ Cardinality(Entries(list, n)) = 1
            /\ ~HasDemandEntry(n) =>
                 \A e \in Entries(list, n) :
                   list[e] = [name |-> first.name, amount |-> 1,
                              unit |-> OrElse(first, "unit", "unit"),
                              category |-> OrElse(first, "category", "Other")]

\* an out-of-stock item with an empty unit and no category, listed as 1 'unit' under 'Other'
C5_Witness ==
  /\ Len(state.inventory) = 2
  /\ state.inventory[2].name = "Milk"
  /\ StatusOf(state.inventory[2]) = "out-of-stock"
  /\ state.inventory[1].name = "egg"
  /\ ~HasDemandEntry("milk")
  /\ \E e \in Entries(shoppingList, "milk") :
        shoppingList[e] = [name |-> "Milk", amount |-> 1, unit |-> "unit", category |-> "Other"]

(***************************************************************************)
(* C6 as stated: a low-stock inventory item has an entry of its name on    *)
(* the list if and only if its id is in the replenish set.                 *)
(***************************************************************************)
C6_LowStockIffFlagged_Original ==
  LET list == shoppingList
  IN \A i \in 1..Len(state.inventory) :
       StatusOf(state.inventory[i]) = "low-stock" =>
         (Entries(list, toLowerCase(state.inventory[i].name)) # {}
            <=> state.inventory[i].id \in replenishItems)

(***************************************************************************)
(* C6 amended: a low-stock inventory item has an entry of its name on the  *)
(* list if and only if its id is in the replenish set, or the plan leaves  *)
(* a demand entry of that name, or another inventory item of that name is  *)
(* out-of-stock or low-stock with its id in the replenish set.             *)
(***************************************************************************)
C6_LowStockIffFlagged ==
  LET list == shoppingList
  IN \A i \in 1..Len(state.inventory) :
       LET item == state.inventory[i]
           n == toLowerCase(item.name)
       IN StatusOf(item) = "low-stock" =>
            (Entries(list, n) # {}
               <=> \/ item.id \in replenishItems
                   \/ HasDemandEntry(n)
                   \/ \E j \in InventoryNamed(n) \ {i} : IsFlagged(state.inventory[j]))

\* a low-stock item listed only because its id was added to the replenish set
C6_Witness ==
  /\ Len(state.inventory) = 1
  /\ StatusOf(state.inventory[1]) = "low-stock"
  /\ state.inventory[1].id \in replenishItems
  /\ ~HasDemandEntry(toLowerCase(state.inventory[1].name))
  /\ Entries(shoppingList, toLowerCase(state.inventory[1].name)) # {}

\* the addItem step with this form content merges into a tracked item
MergesIntoTracked(newItem) ==
  LET idx == FindIndex(state.inventory, LAMBDA i : SameName(i.name, newItem.name))
  IN /\ lastUpdate'.op = "addItem"
     /\ lastUpdate'.path = IF newItem.untrackedAmount THEN "merge-untracked" ELSE "merge-add"
     /\ idx # 0
     /\ ~IsUntracked(state.inventory[idx])
     /\ addItem(newItem)

\* the merge kept the number of entries and summed the amounts
AmountsSummed(newItem) ==
  LET idx == FindIndex(state.inventory, LAMBDA i : SameName(i.name, newItem.name))
  IN /\ Len(state'.inventory) = Len(state.inventory)
     /\ state'.inventory[idx].amount = state.inventory[idx].amount + newItem.amount

(***************************************************************************)
(* C7 as stated: addItem with any incoming item, tracked or untracked,     *)
(* whose name matches an existing tracked item case-insensitively keeps    *)
(* the number of entries and makes the item's amount old + incoming.       *)
(***************************************************************************)
C7_MergeSums_Original ==
  [][\A n \in NewItems : MergesIntoTracked(n) => AmountsSummed(n)]_vars

(***************************************************************************)
(* C7 amended: addItem with a tracked incoming item whose name matches an  *)
(* existing tracked item case-insensitively keeps the number of entries    *)
(* and makes the item's amount old + incoming; with an untracked incoming  *)
(* item (the form default) it keeps the number of entries, leaves the      *)
(* amount as it was, marks the item untracked and adopts the incoming      *)
(* stock status.                                                           *)
(***************************************************************************)
C7_MergeSums ==
  [][\A n \in NewItems :
       MergesIntoTracked(n) =>
         LET idx == FindIndex(state.inventory, LAMBDA i : SameName(i.name, n.name))
         IN IF n.untrackedAmount
            THEN /\ Len(state'.inventory) = Len(state.inventory)
                 /\ state'.inventory[idx].amount = state.inventory[idx].amount
                 /\ IsUntracked(state'.inventory[idx])
                 /\ StatusOf(state'.inventory[idx]) = n.stockStatus
            ELSE AmountsSummed(n)]_vars

\* a tracked "Milk" restocked through the form under the spelling "milk": one
\* entry, still tracked, holding more than one form amount
C7_Witness ==
  /\ lastUpdate = [op |-> "addItem", path |-> "merge-add"]
  /\ Len(state.inventory) = 1
  /\ state.inventory[1].name = "Milk"
  /\ ~IsUntracked(state.inventory[1])
  /\ state.inventory[1].amount = 2

(***************************************************************************)
(* C8. Every inventory amount is >= 0 in every state reached from a        *)
(* non-negative inventory through addItem, updateAmount, addToInventory,   *)
(* toggleUntracked and setStockStatus.                                     *)
(***************************************************************************)
C8_NonNegative ==
  \A i \in 1..Len(state.inventory) : state.inventory[i].amount >= 0

Deltas == -(MaxAmount + 1)..(MaxAmount + 1)

(***************************************************************************)
(* C9. For every inventory, id and delta, updateAmount sets the amount of  *)
(* the items with that id to max(0, amount + delta), never a negative      *)
(* number, keeps their other fields, and keeps every other item.           *)
(***************************************************************************)
C9_UpdateAmount ==
  \A id \in ItemIds, d \in Deltas :
    LET inv == state.inventory
        r == UpdateAmountOf(inv, id, d)
    IN /\ Len(r) = Len(inv)
       /\ \A k \in 1..Len(inv) :
            IF inv[k].id = id
            THEN /\ r[k].amount >= 0
                 /\ inv[k].amount + d >= 0 => r[k].amount = inv[k].amount + d
                 /\ inv[k].amount + d < 0 => r[k].amount = 0
                 /\ DOMAIN r[k] = DOMAIN inv[k]
                 /\ \A f \in DOMAIN inv[k] \ {"amount"} : r[k][f] = inv[k][f]
            ELSE r[k] = inv[k]

\* the - button pressed on an empty tracked item of a two-item inventory: it stays at 0
C9_Witness ==
  /\ lastUpdate = [op |-> "updateAmount", delta |-> -1]
  /\ Len(state.inventory) = 2
  /\ \E k \in 1..2 : ~IsUntracked(state.inventory[k]) /\ state.inventory[k].amount = 0
  /\ \A k \in 1..2 : state.inventory[k].amount >= 0

(***************************************************************************)
(* C10. In every state reached from startup through addCategory,           *)
(* removeCategory, factory reset, a reload from the persisted document and *)
(* file imports, the category vocabulary has at least one entry.           *)
(***************************************************************************)
C10_CategoriesNonEmpty == Len(state.categories) >= 1

\* the ingredient or item carries the category
Carries(i, c) == Has(i, "category") /\ i.category = c

\* two objects with the same properties and the same values, but for property k
SameBut(a, b, k) == DOMAIN a = DOMAIN b /\ \A f \in DOMAIN a \ {k} : a[f] = b[f]

\* an ingredient or item that carried c is the same under 'Other'; any other is as it was
Reassigned(old, new, c) ==
  IF Carries(old, c)
  THEN SameBut(old, new, "category") /\ new.category = "Other"
  ELSE new = old

(***************************************************************************)
(* C11. removeCategory(c) on a vocabulary of more than one category drops  *)
(* c from the vocabulary, moves every recipe ingredient and inventory item *)
(* that carried c to 'Other' and keeps every other ingredient, item, tag   *)
(* and recipe; on a vocabulary of one category the aggregate is unchanged. *)
(***************************************************************************)
C11_RemoveCategory ==
  [][\A c \in RemovableCategories :
       removeCategory(c) =>
         IF Len(state.categories) > 1
         THEN /\ ~Includes(state'.categories, c)
              /\ state'.categories = SelectSeq(state.categories, LAMBDA x : x # c)
              /\ state'.customTags = state.customTags
              /\ Len(state'.inventory) = Len(state.inventory)
              /\ \A i \in 1..Len(state.inventory) :
                    Reassigned(state.inventory[i], state'.inventory[i], c)
              /\ Len(state'.recipes) = Len(state.recipes)
              /\ \A r \in 1..Len(state.recipes) :
                    /\ SameBut(state.recipes[r], state'.recipes[r], "ingredients")
                    /\ Len(state'.recipes[r].ingredients) = Len(state.recipes[r].ingredients)
                    /\ \A i \in 1..Len(state.recipes[r].ingredients) :
                          Reassigned(state.recipes[r].ingredients[i],
                                     state'.recipes[r].ingredients[i], c)
         ELSE state' = state]_vars

\* 'Dairy' was deleted: the vocabulary lost it, and the Milk of the Latte and
\* the milk of the inventory are under 'Other' while the Custard's milk stays in 'Pantry'
C11_Witness ==
  /\ lastUpdate = [op |-> "removeCategory"]
  /\ ~Includes(state.categories, "Dairy")
  /\ Includes(state.categories, "Pantry")
  /\ Len(state.recipes) = 2 /\ Len(state.inventory) = 2
  /\ state.recipes[1].ingredients[1].category = "Other"
  /\ state.recipes[2].ingredients[1].category = "Pantry"
  /\ state.inventory[1].category = "Other"

(***************************************************************************)
(* C12. After removeTag(t) the tag vocabulary and the tag list of every    *)
(* recipe are what they were without t, in the same order; the other       *)
(* fields of every recipe, the inventory and the categories are unchanged. *)
(***************************************************************************)
C12_RemoveTag ==
  [][\A t \in RemovableTags :
       removeTag(t) =>
         /\ ~Includes(state'.customTags, t)
         /\ state'.customTags = SelectSeq(state.customTags, LAMBDA x : x # t)
         /\ state'.inventory = state.inventory
         /\ state'.categories = state.categories
         /\ Len(state'.recipes) = Len(state.recipes)
         /\ \A r \in 1..Len(state.recipes) :
               /\ SameBut(state.recipes[r], state'.recipes[r], "tags")
               /\ ~Includes(state'.recipes[r].tags, t)
               /\ state'.recipes[r].tags = SelectSeq(state.recipes[r].tags, LAMBDA x : x # t)]_vars

\* 'Vegan' was deleted: the Latte keeps Quick and Dinner in that order, the
\* Custard has no tag left
C12_Witness ==
  /\ lastUpdate = [op |-> "removeTag"]
  /\ state.customTags = <<"Quick", "Dinner">>
  /\ Len(state.recipes) = 2
  /\ state.recipes[1].tags = <<"Quick", "Dinner">>
  /\ state.recipes[2].tags = <<>>

(***************************************************************************)
(* C13. Round trip: in every reachable state, importing the document that  *)
(* exporting the aggregate produces gives an aggregate equal to it.        *)
(***************************************************************************)
C13_RoundTrip == AsAggregate(JsonParse(exportSession(state))) = state

(***************************************************************************)
(* C14. When the read of an import ends with a text that is not JSON or    *)
(* with a read error, the aggregate and the persisted document after the   *)
(* step are those just before it, whatever was changed while the read was  *)
(* pending, and the failure alert is shown.                                *)
(***************************************************************************)
C14_FailedImport ==
  [][\A f \in {Garbage, Unreadable} :
       importSettled(f) =>
         /\ state' = state
         /\ storage' = storage
         /\ alert' = "Failed to import session. Please check the file format."]_vars

\* a failed import was reported while the aggregate holds the category the
\* user added in the settings, and the document persists it
C14_Witness ==
  /\ alert = "Failed to import session. Please check the file format."
  /\ lastUpdate = [op |-> "addCategory"]
  /\ Includes(state.categories, "Spices")
  /\ storage = Stringify(state)
  /\ reads = {}

\* the aggregates the importable JSON documents denote
Denoted(f) ==
  IF f = Stringify(SmallSession) THEN SmallSession
  ELSE IF f = Overflowing
  THEN [SmallSession EXCEPT !.inventory = <<Put(SmallSession.inventory[1], "amount", Infinity)>>]
  ELSE [SmallSession EXCEPT !.categories = <<>>]

(***************************************************************************)
(* C15. When the read of an import ends with a JSON document, the          *)
(* aggregate becomes the document as parsed, with no merge and no          *)
(* defaulting, whatever was changed and whichever other import was started *)
(* or completed since the request: the read that ends last decides.        *)
(***************************************************************************)
C15_ImportReplaces ==
  [][\A f \in ImportFiles \ {Garbage, Unreadable} :
       importSettled(f) => state' = Denoted(f)]_vars

\* two imports were requested and both reads have ended, the one of the
\* document without categories last: the aggregate is that document
C15_Witness ==
  /\ lastUpdate = [op |-> "import"]
  /\ reads = {}
  /\ state = [SmallSession EXCEPT !.categories = <<>>]

\* the default of each property of the aggregate
DefaultOf(k) ==
  IF k = "customTags"
  THEN <<"Breakfast", "Lunch", "Dinner", "Snack", "Dessert", "Vegetarian", "Vegan", "Quick">>
  ELSE IF k = "categories"
  THEN <<"Produce", "Dairy", "Meat", "Bakery", "Frozen", "Pantry", "Beverages", "Household",
         "Other">>
  ELSE <<>>

\* v is the value property k has in the stored document: the array it
\* holds, or the empty array; the null of a document is no array
TakenFrom(k, v) ==
  /\ Has(storage.value[k], "arr")
  /\ v = IF storage.value[k].arr = <<>> THEN <<>> ELSE SmallSession[k]

\* the loader returned the full default aggregate
AllDefaults == \A k \in Fields : state[k] = DefaultOf(k)

(***************************************************************************)
(* C16 as stated: the loader returns the full default aggregate for an     *)
(* absent or unparsable document, and for a parsed document each of the    *)
(* four fields is taken from the document when present and is its own      *)
(* default when missing.                                                   *)
(***************************************************************************)
C16_LoadDefaults_Original ==
  lastUpdate = [op |-> "load"] =>
    /\ DOMAIN state = Fields
    /\ IF storage.kind # "json" THEN AllDefaults
       ELSE \A k \in Fields :
              IF Has(storage.value, k) THEN TakenFrom(k, state[k])
              ELSE state[k] = DefaultOf(k)

(***************************************************************************)
(* C16 amended: the loader returns the full default aggregate for an       *)
(* absent or unparsable document and for the text null, and for a parsed   *)
(* document each of the four fields is taken from the document when it     *)
(* holds an array there and is its own default when it is missing or null, *)
(* independently of the other three.                                       *)
(***************************************************************************)
C16_LoadDefaults ==
  lastUpdate = [op |-> "load"] =>
    /\ DOMAIN state = Fields
    /\ IF storage.kind # "json" THEN AllDefaults
       ELSE \A k \in Fields :
              IF Has(storage.value, k) /\ storage.value[k] # JsNull
              THEN TakenFrom(k, state[k])
              ELSE state[k] = DefaultOf(k)

\* a document with recipes and tags, a null inventory and no categories was
\* loaded: two fields come from the document and two are defaults
C16_Witness ==
  /\ lastUpdate = [op |-> "load"]
  /\ storage.kind = "json"
  /\ DOMAIN storage.value = {"recipes", "inventory", "customTags"}
  /\ storage.value.inventory = JsNull
  /\ state.recipes = SmallSession.recipes
  /\ state.customTags = <<"Quick">>
  /\ state.inventory = <<>>
  /\ Len(state.categories) = 9

(***************************************************************************)
(* C17. After the mount and after every change of the aggregate, by an     *)
(* inventory, recipe or settings handler or by an import, the persisted    *)
(* document is the serialization of the current aggregate.                 *)
(***************************************************************************)
C17_Persisted == storage = Stringify(state)

\* a recipe was saved after an import: the persisted document holds the
\* imported recipe and the new one
C17_Witness ==
  /\ lastUpdate = [op |-> "saveRecipe"]
  /\ Len(state.recipes) = 2
  /\ state.recipes[1].id = "7"
  /\ storage.kind = "json"
  /\ Len(storage.value.recipes.arr) = 2
  /\ storage.value.recipes.arr[2].name = "Toast"

\* the aggregate after the step differs from the one before it in property k at most
OnlyChanges(k) == \A f \in Fields \ {k} : state'[f] = state[f]

(***************************************************************************)
(* C18. Clear inventory, factory reset and recipe deletion leave recipes,  *)
(* inventory, tags and categories as they were when the confirmation is    *)
(* declined; when it is accepted, clear inventory empties the inventory    *)
(* and nothing else, recipe deletion removes the recipes of the given id   *)
(* and nothing else, and factory reset gives empty recipes and inventory   *)
(* with the seed tags and categories.                                      *)
(***************************************************************************)
C18_Confirmed ==
  [][/\ (\A ok \in BOOLEAN :
           clearInventory(ok) =>
             IF ok THEN (state'.inventory = <<>> /\ OnlyChanges("inventory"))
             ELSE (state' = state /\ storage' = storage))
      /\ (\A yes \in BOOLEAN :
           resetAll(yes) =>
             IF yes
             THEN (/\ DOMAIN state' = Fields
                   /\ state'.recipes = <<>> /\ state'.inventory = <<>>
                   /\ state'.customTags = DefaultOf("customTags")
                   /\ state'.categories = DefaultOf("categories"))
             ELSE (state' = state /\ storage' = storage))
      /\ (\A id \in {"1", "2"}, sure \in BOOLEAN :
           deleteRecipe(id, sure) =>
             IF sure
             THEN (/\ OnlyChanges("recipes")
                   /\ \A r \in 1..Len(state'.recipes) : state'.recipes[r].id # id
                   /\ state'.recipes = SelectSeq(state.recipes, LAMBDA x : x.id # id))
             ELSE (state' = state /\ storage' = storage))]_vars

\* the Latte was deleted after the confirmation: the Custard, the inventory
\* and the vocabularies are as they were
C18_Witness ==
  /\ lastUpdate = [op |-> "deleteRecipe"]
  /\ state.recipes = <<AppRecipes[2]>>
  /\ state.inventory = AppInventory
  /\ state.customTags = AppTags
  /\ state.categories \in AppVocabularies

\* the ingredient is required and the inventory does not hold enough of it:
\* no item of its name, or the first such item has a smaller amount
Lacking(req) ==
  /\ ~(Has(req, "optional") /\ req.optional)
  /\ \/ \A i \in 1..Len(state.inventory) : ~SameName(state.inventory[i].name, req.name)
     \/ \E i \in 1..Len(state.inventory) :
          /\ SameName(state.inventory[i].name, req.name)
          /\ \A j \in 1..(i - 1) : ~SameName(state.inventory[j].name, req.name)
          /\ state.inventory[i].amount < req.amount

NameOf(req) == req.name

\* the names of the elements of a sequence
NamesOf(ings) == [i \in 1..Len(ings) |-> NameOf(ings[i])]

(***************************************************************************)
(* C19. For every recipe and inventory the missing list of the card is the *)
(* names, in order, of the non-optional ingredients that no inventory item *)
(* matches case-insensitively or whose matched item holds less than the    *)
(* required amount; the card says cookable exactly when that list is       *)
(* empty; an untracked item counts through its amount alone.               *)
(***************************************************************************)
C19_Cookability ==
  \A r \in 1..Len(state.recipes) :
    /\ missingIngredients(r) = NamesOf(SelectSeq(state.recipes[r].ingredients, Lacking))
    /\ canCook(r) <=>
         \A i \in 1..Len(state.recipes[r].ingredients) :
            ~Lacking(state.recipes[r].ingredients[i])

\* the "milk" of amount 0 was switched to untracked and is in stock: the
\* Latte misses Milk and egg, the Custard misses milk and not its optional egg
C19_Witness ==
  /\ activeTab = "recipes"
  /\ lastUpdate = [op |-> "toggleUntracked"]
  /\ Len(state.inventory) = 1
  /\ state.inventory[1].name = "milk"
  /\ state.inventory[1].amount = 0
  /\ IsUntracked(state.inventory[1])
  /\ StatusOf(state.inventory[1]) = "in-stock"
  /\ missingIngredients(1) = <<"Milk", "egg">>
  /\ missingIngredients(2) = <<"milk">>
  /\ ~canCook(2)

(***************************************************************************)
(* C20. After an addToPlan or updateCount that changes the plan no line of *)
(* the shopping list is ticked, and the ticked set is no property of the   *)
(* persisted document.                                                     *)
(***************************************************************************)
C20_CheckedReset ==
  [][/\ \A r \in {"1", "2"} :
          (addToPlan(r) \/ \E d \in {-1, 1} : updateCount(r, d))
          /\ selectedRecipes' # selectedRecipes
          => checkedItems' = {}
     /\ "checkedItems" \notin DOMAIN storage'.value]_vars

(***************************************************************************)
(* C21 as stated: addToInventory of a list line matches by                 *)
(* case-insensitive name; a matched tracked item gets amount old + line    *)
(* amount, a matched untracked item gets stockStatus in-stock, a match     *)
(* adds no entry, and the inventory after the step is the one addItem      *)
(* produces for a tracked incoming item of the line's name and amount.     *)
(***************************************************************************)
C21_SameMergeRule_Original ==
  [][\A e \in 1..2 :
       (lastUpdate'.op = "addToInventory" /\ addToInventory(e)) =>
         LET item == shoppingList[e]
             inv == state.inventory
             idx == FindIndex(inv, LAMBDA i : SameName(i.name, item.name))
             tracked == [name |-> item.name, amount |-> item.amount, unit |-> item.unit,
                         category |-> item.category, untrackedAmount |-> FALSE,
                         stockStatus |-> "in-stock"]
         IN /\ idx # 0 =>
                 /\ Len(state'.inventory) = Len(inv)
                 /\ IF IsUntracked(inv[idx])
                    THEN state'.inventory[idx].stockStatus = "in-stock"
                    ELSE state'.inventory[idx].amount = inv[idx].amount + item.amount
            /\ state'.inventory = AddItemOf(inv, tracked, Uuid(nextId))]_vars

(***************************************************************************)
(* C21 amended: addToInventory of a list line matches by case-insensitive  *)
(* name and a match adds no entry and changes no other item.  A matched    *)
(* tracked item gets amount old + line amount and nothing else, and the    *)
(* inventory is the one addItem produces for a tracked incoming item of    *)
(* the line's name and amount.  A matched untracked item gets stockStatus  *)
(* in-stock and nothing else, and without a match one untracked in-stock   *)
(* item is appended: in both cases the inventory is the one addItem        *)
(* produces for an untracked in-stock incoming item of the line's name,    *)
(* amount, unit and category.                                              *)
(***************************************************************************)
C21_SameMergeRule ==
  [][\A e \in 1..2 :
       (lastUpdate'.op = "addToInventory" /\ addToInventory(e)) =>
         LET item == shoppingList[e]
             inv == state.inventory
             idx == FindIndex(inv, LAMBDA i : SameName(i.name, item.name))
             tracked == [name |-> item.name, amount |-> item.amount, unit |-> item.unit,
                         category |-> item.category, untrackedAmount |-> FALSE,
                         stockStatus |-> "in-stock"]
             untracked == [tracked EXCEPT !.untrackedAmount = TRUE]
         IN IF idx = 0
            THEN /\ Len(state'.inventory) = Len(inv) + 1
                 /\ state'.inventory = AddItemOf(inv, untracked, Uuid(nextId))
            ELSE /\ Len(state'.inventory) = Len(inv)
                 /\ \A k \in 1..Len(inv) : k # idx => state'.inventory[k] = inv[k]
                 /\ IF IsUntracked(inv[idx])
                    THEN /\ DOMAIN state'.inventory[idx] = DOMAIN inv[idx] \cup {"stockStatus"}
                         /\ \A f \in DOMAIN inv[idx] \ {"stockStatus"} :
                               state'.inventory[idx][f] = inv[idx][f]
                         /\ state'.inventory[idx].stockStatus = "in-stock"
                         /\ state'.inventory = AddItemOf(inv, untracked, Uuid(nextId))
                    ELSE /\ SameBut(inv[idx], state'.inventory[idx], "amount")
                         /\ state'.inventory[idx].amount = inv[idx].amount + item.amount
                         /\ state'.inventory = AddItemOf(inv, tracked, Uuid(nextId))]_vars

\* the line "milk" was bought into the tracked item "Milk": one entry, still
\* tracked, holding the amount the Custard needs
C21_Witness ==
  /\ lastUpdate = [op |-> "addToInventory", path |-> "add"]
  /\ activeTab = "shopping"
  /\ selectedRecipes = <<[recipeId |-> "2", count |-> 1]>>
  /\ Len(state.inventory) = 1
  /\ state.inventory[1].name = "Milk"
  /\ ~IsUntracked(state.inventory[1])
  /\ state.inventory[1].amount = MaxAmount
  /\ shoppingList = <<>>

(***************************************************************************)
(* C22. Grouping is total: every line of the shopping list is shown in     *)
(* exactly one category group on screen and written exactly once in the    *)
(* copied text, the groups follow the order of the category vocabulary,    *)
(* and a line whose category is not in the vocabulary is shown and         *)
(* written under the fallback category 'Other' rather than left out.       *)
(***************************************************************************)
C22_GroupingTotal ==
  activeTab = "shopping" =>
    LET list == shoppingList
        groups == renderedGroups
        text == copiedText
        GroupsOf(e) ==
          {g \in 1..Len(groups) :
             \E i \in 1..Len(groups[g].items) : groups[g].items[i] = list[e]}
        WrittenAt(e) ==
          {k \in 1..Len(text) :
             text[k] = [name |-> list[e].name, amount |-> list[e].amount,
                        unit |-> list[e].unit]}
        HeadingOf(k) ==
          CHOOSE h \in 1..k :
            /\ Has(text[h], "heading")
            /\ \A j \in (h + 1)..k : ~Has(text[j], "heading")
        PlaceOf(c) == FindIndex(state.categories, LAMBDA x : x = c)
    IN /\ \A e \in 1..Len(list) :
            /\ Cardinality(GroupsOf(e)) = 1
            /\ Cardinality(WrittenAt(e)) = 1
            /\ ~Includes(state.categories, list[e].category) =>
                  /\ \A g \in GroupsOf(e) : groups[g].category = "Other"
                  /\ \A k \in WrittenAt(e) : text[HeadingOf(k)].heading = "Other"
       /\ \A g, h \in 1..Len(groups) :
            g < h => PlaceOf(groups[g].category) < PlaceOf(groups[h].category)

(***************************************************************************)
(* C23. The amount of an untracked inventory item does not decide the      *)
(* shopping list: an inventory that differs from the current one only in   *)
(* the amounts of its untracked items, whatever their stockStatus          *)
(* (out-of-stock included), gives the same list for the same plan, catalog *)
(* and replenish set.  (The claim lets the units differ as well.)          *)
(***************************************************************************)
C23_UntrackedAmountIgnored ==
  \A alt \in [1..Len(state.inventory) -> 0..MaxAmount] :
    LET other == [i \in 1..Len(state.inventory) |->
                    IF IsUntracked(state.inventory[i])
                    THEN [state.inventory[i] EXCEPT !.amount = alt[i]]
                    ELSE state.inventory[i]]
    IN ShoppingListOf(selectedRecipes, state.recipes, other, replenishItems) = shoppingList

(***************************************************************************)
(* C24. addItem with a tracked incoming item whose name matches an         *)
(* existing untracked item case-insensitively switches that item to        *)
(* tracked and sets its amount to the incoming amount, whatever its amount *)
(* was; it adds no entry and leaves the item's id, name, unit, category    *)
(* and stockStatus and every other item as they were.                      *)
(***************************************************************************)
C24_ReplaceUntracked ==
  \A n \in NewItems :
    LET inv == state.inventory
        idx == FindIndex(inv, LAMBDA i : SameName(i.name, n.name))
        after == AddItemOf(inv, n, Uuid(nextId))
    IN (~n.untrackedAmount /\ idx # 0 /\ IsUntracked(inv[idx])) =>
         /\ Len(after) = Len(inv)
         /\ ~IsUntracked(after[idx])
         /\ after[idx].amount = n.amount
         /\ DOMAIN after[idx] = DOMAIN inv[idx]
         /\ \A f \in DOMAIN inv[idx] \ {"untrackedAmount", "amount"} :
               after[idx][f] = inv[idx][f]
         /\ \A k \in 1..Len(inv) : k # idx => after[k] = inv[k]

\* the untracked low-stock "Milk" was restocked through the form as a tracked
\* "milk": one entry, tracked, with the form's amount and its old status
C24_Witness ==
  /\ lastUpdate = [op |-> "addItem", path |-> "merge-replace"]
  /\ Len(state.inventory) = 1
  /\ state.inventory[1].name = "Milk"
  /\ ~IsUntracked(state.inventory[1])
  /\ state.inventory[1].amount = 1
  /\ StatusOf(state.inventory[1]) = "low-stock"

(***************************************************************************)
(* C25. toggleUntracked(id) flips the untrackedAmount flag of the          *)
(* addressed item and changes its stockStatus only when the item goes from *)
(* untracked to tracked with no prior status, which becomes in-stock: a    *)
(* tracked item with no stockStatus that is switched to untracked still    *)
(* has none.  Its other fields and every other item are unchanged.         *)
(***************************************************************************)
C25_ToggleFlipsFlag ==
  [][\A id \in {"inv1", "inv2"} :
       toggleUntracked(id) =>
         \A k \in 1..Len(state.inventory) :
           LET old == state.inventory[k]
               new == state'.inventory[k]
           IN IF old.id = id
              THEN /\ IsUntracked(new) = ~IsUntracked(old)
                   /\ DOMAIN new \ {"untrackedAmount", "stockStatus"}
                        = DOMAIN old \ {"untrackedAmount", "stockStatus"}
                   /\ \A f \in DOMAIN old \ {"untrackedAmount", "stockStatus"} :
                         new[f] = old[f]
                   /\ IF IsUntracked(old) /\ ~Has(old, "stockStatus")
                      THEN StatusOf(new) = "in-stock"
                      ELSE StatusOf(new) = StatusOf(old)
              ELSE new = old]_vars

(***************************************************************************)
(* C26. Recipe CRUD by identity: saveRecipe with an id of the catalog      *)
(* replaces that recipe at its position and keeps the length, saveRecipe   *)
(* with a new id appends one recipe, deleteRecipe removes exactly the      *)
(* recipe of the given id; through every sequence of these operations the  *)
(* recipe ids stay pairwise distinct, and the inventory, the tags and the  *)
(* categories are unchanged.                                               *)
(***************************************************************************)
C26_RecipeCrud ==
  [][LET DistinctIds(recipes) ==
           \A a, b \in 1..Len(recipes) : recipes[a].id = recipes[b].id => a = b
         PlacesOf(id) == {r \in 1..Len(state.recipes) : state.recipes[r].id = id}
         Forms == {FormRecipe(id, c) : id \in {"1", "2", "u1", "u2"}, c \in {"Other", "Dairy"}}
     IN /\ DistinctIds(state.recipes) /\ DistinctIds(state'.recipes)
        /\ state'.inventory = state.inventory
        /\ state'.customTags = state.customTags
        /\ state'.categories = state.categories
        /\ \A f \in Forms :
              saveRecipe(f) =>
                IF PlacesOf(f.id) # {}
                THEN /\ Len(state'.recipes) = Len(state.recipes)
                     /\ \A r \in 1..Len(state.recipes) :
                           state'.recipes[r] = IF r \in PlacesOf(f.id) THEN f ELSE state.recipes[r]
                ELSE state'.recipes = Append(state.recipes, f)
        /\ \A id \in {"1", "2", "u1", "u2"} :
              /\ deleteRecipe(id, TRUE) =>
                   \E r \in 1..Len(state.recipes) :
                      /\ state.recipes[r].id = id
                      /\ state'.recipes = SubSeq(state.recipes, 1, r - 1)
                                            \o SubSeq(state.recipes, r + 1, Len(state.recipes))
              /\ deleteRecipe(id, FALSE) => state' = state]_vars

\* the first seed recipe was edited in place after the second one was deleted
\* and a new one created
C26_Witness ==
  /\ lastUpdate = [op |-> "saveRecipe"]
  /\ Len(state.recipes) = 2
  /\ state.recipes[1] = FormRecipe("1", "Dairy")
  /\ state.recipes[2].id = "u1"

(***************************************************************************)
(* C27. Session restore: for every aggregate the application reaches, one  *)
(* with an empty recipe list and a non-empty inventory included, a restart *)
(* that reads the document persisted for it starts with an aggregate equal *)
(* to it, and the first save after the start leaves the document as it is. *)
(***************************************************************************)
C27_SessionRestore ==
  /\ InitialState(storage) = state
  /\ Stringify(InitialState(storage)) = storage

(***************************************************************************)
(* C28. Buying clears the line: after addToInventory(item) for an item of  *)
(* the computed shopping list, the list computed again from the same plan  *)
(* and replenish set has no entry of that item's name, whether the item's  *)
(* match in the inventory is absent, untracked, or tracked with any        *)
(* stockStatus.                                                            *)
(***************************************************************************)
C28_BuyingClears ==
  [][\A e \in 1..2 :
       (lastUpdate'.op = "addToInventory" /\ addToInventory(e)) =>
         /\ selectedRecipes' = selectedRecipes
         /\ replenishItems' = replenishItems
         /\ Entries(shoppingList', toLowerCase(shoppingList[e].name)) = {}]_vars

(***************************************************************************)
(* C29. Through every sequence of addCategory, removeCategory (of any      *)
(* category, Other included), addItem with the category of the form,       *)
(* updateCategory and recipe saves from the seed data, the category of     *)
(* every inventory item and of every recipe ingredient is in the category  *)
(* vocabulary, so every inventory item is shown in exactly one group of    *)
(* the inventory view.                                                     *)
(***************************************************************************)
C29_CategoriesInVocabulary ==
  /\ \A i \in 1..Len(state.inventory) :
        /\ Includes(state.categories, OrElse(state.inventory[i], "category", "Other"))
        /\ Cardinality({c \in 1..Len(state.categories) :
                          OrElse(state.inventory[i], "category", "Other") = state.categories[c]}) = 1
  /\ \A r \in 1..Len(state.recipes) :
        \A g \in 1..Len(state.recipes[r].ingredients) :
           Includes(state.categories, OrElse(state.recipes[r].ingredients[g], "category", "Other"))

(***************************************************************************)
(* C30. For every plan, catalog, inventory (several items of one name      *)
(* included) and replenish set, the computed shopping list has no two      *)
(* entries whose names are equal without regard to case, and every entry's *)
(* amount is greater than zero.                                            *)
(***************************************************************************)
C30_DistinctPositive ==
  /\ \A a, b \in 1..Len(shoppingList) :
        SameName(shoppingList[a].name, shoppingList[b].name) => a = b
  /\ \A a \in 1..Len(shoppingList) : shoppingList[a].amount > 0

\* two out-of-stock items of one name in the inventory, a plan, and one line
\* of that name in the list
C30_Witness ==
  /\ selectedRecipes # <<>>
  /\ \E a, b \in 1..Len(state.inventory) :
        /\ a # b
        /\ SameName(state.inventory[a].name, state.inventory[b].name)
        /\ StatusOf(state.inventory[a]) = "out-of-stock"
        /\ StatusOf(state.inventory[b]) = "out-of-stock"
        /\ Cardinality(Entries(shoppingList, toLowerCase(state.inventory[a].name))) = 1

====
